---- MODULE Spec2Model ----
(***************************************************************************)
(* A model of driver.c: the checksum oracle, the per-queue command log    *)
(* with its completion trampoline, and the ioworker.                       *)
(*                                                                         *)
(* Widths.  TLC's integers are 32-bit, so the 32-bit checksum word is      *)
(* kept at 31 bits (ALL_ONES stands for 0xffffffff) and the 64-bit token   *)
(* is kept modulo TOKEN_MOD.  A struct timeval is a record of its seconds    *)
(* and microseconds.                                                       *)
(***************************************************************************)
EXTENDS Integers, Sequences, FiniteSets, TLC

\* ------------------------------------------------------------------ bounds
\* the namespace's size in logical blocks (spdk_nvme_ns_get_num_sectors)
NSZE == 4
\* the ring depth of a command log table, scaled down from 2048
CMD_LOG_DEPTH == 4
\* the controller's max_xfer_size, in logical blocks
MAX_XFER_BLOCKS == 2
\* the range of the shared io token, scaled down from 2^64
TOKEN_MOD == 16
\* the clock stops MaxDays days and MaxNow seconds after the run started
MaxNow == 12
MaxDays == 1
\* the range of an unsigned int of microseconds, in seconds (scaled from 4294)
UINT_SECONDS == 1000
\* the most I/Os one ioworker run sends in the model
MaxSent == 4
\* the most commands a script submits directly in one behaviour
MaxCmds == 3
\* the most write reservations of the token in one behaviour
MaxWrites == 4
\* the processes sharing the token
NPROC == 2
\* the most ioworker runs one after the other on one status row
MaxRuns == 2
\* the most I/Os a run sends where it goes round the ring with an I/O held back
MaxDeep == 6

\* ------------------------------------------------------- program constants
\* 0xffffffff: the "uncorrectable" checksum word, at the model's 31 bits
ALL_ONES == 2147483647
US_PER_S == 1000000
\* the watchdog's grace over args->seconds, in milliseconds
WATCHDOG_MS == 10000
\* 24*3600: the longest run, in seconds
DAY_S == 86400
\* (unsigned long)-1, the io_count of an unbounded run, at the model's 31 bits
ULONG_MAX == 2147483647
\* the driver's submit call failing: -ENOMEM
ENOMEM == 12

NULL == "NULL"
\* a null buffer pointer, a null callback argument
NOBUF == -1
NOARG == -1

VARIABLES
  now,                      \* gettimeofday
  g_driver_csum_table_ptr,  \* the checksum table: lba -> checksum word
  g_driver_io_token_ptr,    \* the shared io token
  g_ioworker_status_table,  \* the row of the worker's wid: io_count_sent, io_count_cplt
  cmd_log_queue_table,      \* the io queue's log: [table, tail_index]
  bufs,                     \* DMA buffers: buffer id -> sequence of blocks
  media,                    \* the device's blocks: lba -> block
  inflight,                 \* commands handed to the driver and not yet reaped
  nsubmit,                  \* commands handed to the driver so far
  delivered,                \* the completion the step handed to a callback, if any
  args, rets, gctx, io_ctx, \* the ioworker's structures
  test_start,               \* ioworker_entry's test_start
  pc, batch_i, ret,         \* ioworker_entry: where it is, its loop index, its result
  hist,                     \* history of the run, for stating properties
  procs,                    \* the processes sharing the token or the memory zones
  memzones                  \* the names of the memory zones that exist

vars == << now, g_driver_csum_table_ptr, g_driver_io_token_ptr,
           g_ioworker_status_table, cmd_log_queue_table, bufs, media, inflight,
           nsubmit, delivered, args, rets, gctx, io_ctx, test_start, pc,
           batch_i, ret, hist, procs, memzones >>

\* DRIVER_IO_TOKEN_NAME, DRIVER_CRC32_TABLE_NAME, IOWORKER_STATUS_TABLE
ZoneNames == {"driver_io_token", "driver_crc32_table", "ioworker_status_table"}

\* ---------------------------------------------------------------- blocks
\* A logical block: its first 64-bit word, its last one, and the rest.
Block(l, t, r) == [lba |-> l, tok |-> t, rest |-> r]
\* spdk_dma_zmalloc zeroes the buffer
ZeroBlock == Block(0, 0, 0)
\* no block
NoBlock == Block(-1, -1, -1)

Min(a, b) == IF a < b THEN a ELSE b

\* spdk_crc32c_update over one block.  A deterministic function of the whole
\* block; a few blocks hash to the reserved words 0 and 0xffffffff, and a few
\* to 1, the word a checksum of 0 is moved to.
spdk_crc32c_update(blk) ==
  LET key == blk.lba * 64 + blk.tok * 2 + blk.rest
      h   == key % 7
  IN  CASE h = 3 -> 0
        [] h = 5 -> ALL_ONES
        [] h = 6 -> 1
        [] OTHER -> 16 + key

\* a mutant of buffer_calc_csum: the reserved words are not moved
buffer_calc_csum_raw(blk) == spdk_crc32c_update(blk)

\* buffer_calc_csum: 0 is reserved for "no mapping", 0xffffffff for
\* "uncorrectable"
buffer_calc_csum(blk) ==
  LET crc  == spdk_crc32c_update(blk)
      crc1 == IF crc = 0 THEN 1 ELSE crc
  IN  IF crc1 = ALL_ONES THEN ALL_ONES - 1 ELSE crc1

\* a mutant of atomic_fetch_add: the token advances by one per write
atomic_fetch_add_one(val, n) == (val + 1) % TOKEN_MOD

\* __atomic_fetch_add(g_driver_io_token_ptr, lba_count, SEQ_CST): the value
\* stored; the value returned is the old one.
atomic_fetch_add(val, n) == (val + n) % TOKEN_MOD

\* buffer_fill_data with the token it drew: the buffer and the checksum table.
fill_blocks(csum, buf, token, lba, lba_count) ==
  LET blk(i) == Block(lba + i, (token + i) % TOKEN_MOD, buf[i + 1].rest)
  IN  [buf  |-> [k \in 1..Len(buf) |->
                   IF k <= lba_count THEN blk(k - 1) ELSE buf[k]],
       csum |-> [l \in DOMAIN csum |->
                   IF l >= lba /\ l < lba + lba_count
                   THEN buffer_calc_csum(blk(l - lba)) ELSE csum[l]]]

buffer_fill_data(csum, token, buf, lba, lba_count) ==
  LET f == fill_blocks(csum, buf, token, lba, lba_count)
  IN  [buf |-> f.buf, csum |-> f.csum,
       token |-> atomic_fetch_add(token, lba_count)]

RECURSIVE verify_from(_, _, _, _, _)
verify_from(csum, buf, lba, lba_count, i) ==
  IF i >= lba_count THEN 0
  ELSE LET expected_crc == csum[lba + i]
           blk == buf[i + 1]
       IN  IF expected_crc = 0 THEN verify_from(csum, buf, lba, lba_count, i + 1)
           ELSE IF expected_crc = ALL_ONES THEN -1
           ELSE IF lba + i # blk.lba THEN -2
           ELSE IF buffer_calc_csum(blk) # expected_crc THEN -3
           ELSE verify_from(csum, buf, lba, lba_count, i + 1)

\* a mutant of buffer_verify_data: an unmapped block is compared like any other
RECURSIVE verify_from_nomap(_, _, _, _, _)
verify_from_nomap(csum, buf, lba, lba_count, i) ==
  IF i >= lba_count THEN 0
  ELSE LET expected_crc == csum[lba + i]
           blk == buf[i + 1]
       IN  IF expected_crc = ALL_ONES THEN -1
           ELSE IF lba + i # blk.lba THEN -2
           ELSE IF buffer_calc_csum(blk) # expected_crc THEN -3
           ELSE verify_from_nomap(csum, buf, lba, lba_count, i + 1)

buffer_verify_data_nomap(csum, buf, lba, lba_count) ==
  verify_from_nomap(csum, buf, lba, lba_count, 0)

\* a mutant of buffer_verify_data: the lba does not advance with the block
buffer_verify_data_samelba(csum, buf, lba, lba_count) ==
  IF \E i \in 0..(lba_count - 1) : verify_from(csum, <<buf[i + 1]>>, lba, 1, 0) # 0
  THEN -1 ELSE 0

\* a mutant of buffer_verify_data: the checksum is compared before the lba
RECURSIVE verify_from_crcfirst(_, _, _, _, _)
verify_from_crcfirst(csum, buf, lba, lba_count, i) ==
  IF i >= lba_count THEN 0
  ELSE LET expected_crc == csum[lba + i]
           blk == buf[i + 1]
       IN  IF expected_crc = 0
             THEN verify_from_crcfirst(csum, buf, lba, lba_count, i + 1)
           ELSE IF expected_crc = ALL_ONES THEN -1
           ELSE IF buffer_calc_csum(blk) # expected_crc THEN -3
           ELSE IF lba + i # blk.lba THEN -2
           ELSE verify_from_crcfirst(csum, buf, lba, lba_count, i + 1)

buffer_verify_data_crcfirst(csum, buf, lba, lba_count) ==
  verify_from_crcfirst(csum, buf, lba, lba_count, 0)

buffer_verify_data(csum, buf, lba, lba_count) ==
  verify_from(csum, buf, lba, lba_count, 0)

\* a mutant of crc32_clear: the uncorrectable flag is ignored
crc32_clear_zero(csum, lba, lba_count, sanitize, uncorr) ==
  [l \in DOMAIN csum |->
     IF l >= lba /\ l < lba + (IF sanitize THEN NSZE ELSE lba_count)
     THEN 0 ELSE csum[l]]

\* crc32_clear: memset of the slots with 0x00 or 0xff bytes; with sanitize,
\* of the whole table (g_driver_table_size bytes from slot lba = 0).
crc32_clear(csum, lba, lba_count, sanitize, uncorr) ==
  LET c   == IF uncorr THEN ALL_ONES ELSE 0
      len == IF sanitize THEN NSZE ELSE lba_count
  IN  [l \in DOMAIN csum |-> IF l >= lba /\ l < lba + len THEN c ELSE csum[l]]

\* ------------------------------------------------------------------ time
TV(s, u) == [tv_sec |-> s, tv_usec |-> u]
\* the time the model starts at
Epoch == TV(100, 900000)

timeradd(a, b) ==
  IF a.tv_usec + b.tv_usec >= US_PER_S
  THEN TV(a.tv_sec + b.tv_sec + 1, a.tv_usec + b.tv_usec - US_PER_S)
  ELSE TV(a.tv_sec + b.tv_sec, a.tv_usec + b.tv_usec)

timersub(a, b) ==
  IF a.tv_usec - b.tv_usec < 0
  THEN TV(a.tv_sec - b.tv_sec - 1, a.tv_usec - b.tv_usec + US_PER_S)
  ELSE TV(a.tv_sec - b.tv_sec, a.tv_usec - b.tv_usec)

\* timercmp(a, b, >)
timercmp_gt(a, b) ==
  IF a.tv_sec = b.tv_sec THEN a.tv_usec > b.tv_usec ELSE a.tv_sec > b.tv_sec

\* the result is an unsigned int and wraps; the model's unsigned int holds
\* UINT_SECONDS seconds of microseconds
timeval_to_us(t) == (t.tv_sec % UINT_SECONDS) * US_PER_S + t.tv_usec

timeradd_second(t, seconds) == timeradd(t, TV(seconds, 0))

ioworker_get_duration(start, t) ==
  LET diff == timersub(t, start)
  IN  diff.tv_sec * 1000 + (diff.tv_usec + 500) \div 1000

\* ------------------------------------------------------------ command log
Cmd(opc, cdw10, cdw11, cdw12) ==
  [opc |-> opc, nsid |-> 1, cdw10 |-> cdw10, cdw11 |-> cdw11, cdw12 |-> cdw12]
Status(sct, sc) == [sct |-> sct, sc |-> sc]
\* a completion image: dword 2 and the status field
Cpl(cdw2, status) == [cdw2 |-> cdw2, status |-> status]
SUCCESS == Status(0, 0)

\* struct cmd_log_entry_t after memset(log_table, 0, ...)
ZeroEntry ==
  [time_cmd |-> [tv_sec |-> 0, tv_usec |-> 0],
   cmd |-> [opc |-> 0, nsid |-> 0, cdw10 |-> 0, cdw11 |-> 0, cdw12 |-> 0],
   time_cpl |-> [tv_sec |-> 0, tv_usec |-> 0], cpl |-> Cpl(0, SUCCESS),
   buf |-> NOBUF, lba |-> 0, lba_count |-> 0, lba_size |-> 0,
   cb_fn |-> NULL, cb_arg |-> NOARG]

\* cmd_log_table_create: a zeroed table with tail_index 0
cmd_log_table_create ==
  [table |-> [k \in 0..(CMD_LOG_DEPTH - 1) |-> ZeroEntry], tail_index |-> 0]

\* The machine the submission and completion paths act on, as one record.
Machine ==
  [csum |-> g_driver_csum_table_ptr, token |-> g_driver_io_token_ptr,
   log |-> cmd_log_queue_table, bufs |-> bufs, inflight |-> inflight,
   nsubmit |-> nsubmit]

SetMachine(m) ==
  /\ g_driver_csum_table_ptr' = m.csum
  /\ g_driver_io_token_ptr' = m.token
  /\ cmd_log_queue_table' = m.log
  /\ bufs' = m.bufs
  /\ inflight' = m.inflight
  /\ nsubmit' = m.nsubmit

\* a mutant of cmd_log_add_cmd: the tail wraps one slot early
cmd_log_add_cmd_early(log, t, buf, lba, lba_count, lba_size, cmd, cb_fn, cb_arg) ==
  LET tail_index == log.tail_index
      next       == IF tail_index + 2 >= CMD_LOG_DEPTH THEN 0 ELSE tail_index + 1
  IN  [log EXCEPT !.table[tail_index] =
                     [@ EXCEPT !.buf = buf, !.lba = lba, !.lba_count = lba_count,
                               !.lba_size = lba_size, !.cb_fn = cb_fn,
                               !.cb_arg = cb_arg, !.cmd = cmd, !.time_cmd = t],
                  !.tail_index = next]

\* cmd_log_add_cmd: the entry at the tail is written and the tail advances;
\* the entry returned is the one at the old tail.
cmd_log_add_cmd(log, t, buf, lba, lba_count, lba_size, cmd, cb_fn, cb_arg) ==
  LET tail_index == log.tail_index
      next       == IF tail_index + 1 = CMD_LOG_DEPTH THEN 0 ELSE tail_index + 1
  IN  [log EXCEPT !.table[tail_index] =
                     [@ EXCEPT !.buf = buf, !.lba = lba, !.lba_count = lba_count,
                               !.lba_size = lba_size, !.cb_fn = cb_fn,
                               !.cb_arg = cb_arg, !.cmd = cmd, !.time_cmd = t],
                  !.tail_index = next]

\* spdk_nvme_ctrlr_cmd_io_raw, the external driver's submit call: with rc = 0
\* the command is queued with its buffer and its completion context (cb_ctx,
\* the log entry); with rc # 0 nothing is queued.
spdk_nvme_ctrlr_cmd_io_raw(m, cmd, buf, ranges, cb_ctx, rc) ==
  IF rc # 0 THEN m
  ELSE [m EXCEPT !.inflight = @ \cup
                   {[id |-> m.nsubmit, cmd |-> cmd, buf |-> buf, ranges |-> ranges,
                     cb_ctx |-> cb_ctx, state |-> "queued", status |-> SUCCESS]},
                 !.nsubmit = @ + 1]

\* a mutant of nvme_deallocate_ranges: only the first range is cleared
nvme_deallocate_ranges_first(csum, ranges) ==
  IF ranges = <<>> THEN csum
  ELSE crc32_clear(csum, ranges[1].starting_lba, ranges[1].length, FALSE, FALSE)

RECURSIVE nvme_deallocate_ranges(_, _)
nvme_deallocate_ranges(csum, ranges) ==
  IF ranges = <<>> THEN csum
  ELSE nvme_deallocate_ranges(
         crc32_clear(csum, ranges[1].starting_lba, ranges[1].length, FALSE, FALSE),
         Tail(ranges))

\* nvme_send_cmd_raw on an io qpair: the command is logged without a buffer;
\* a Dataset Management command (opcode 9) clears the slots of its cdw10+1
\* ranges; then the command goes to the driver.
nvme_send_cmd_raw(m, t, opcode, buf, ranges, cdw10, cb_fn, cb_arg, rc) ==
  LET cmd  == Cmd(opcode, cdw10, 0, 0)
      slot == m.log.tail_index
      log1 == cmd_log_add_cmd(m.log, t, NOBUF, 0, 0, 0, cmd, cb_fn, cb_arg)
      csum1 == IF opcode = 9
               THEN nvme_deallocate_ranges(m.csum, SubSeq(ranges, 1, cdw10 + 1))
               ELSE m.csum
  IN  spdk_nvme_ctrlr_cmd_io_raw([m EXCEPT !.log = log1, !.csum = csum1],
                                 cmd, buf, ranges, slot, rc)

\* ns_cmd_read_write: the command image; for a write the buffer is filled and
\* the checksum table updated; the log entry (the one at the tail); the
\* driver's submit call, whose result rc is the function's.
\* a mutant of ns_cmd_read_write: a write the driver refuses leaves the
\* buffer, the checksum table and the token as they were
ns_cmd_read_write_rollback(m, t, is_read, buf, lba, lba_count, io_flags, cb_fn, cb_arg, rc) ==
  LET cmd  == Cmd(IF is_read THEN 2 ELSE 1, lba, 0, (lba_count - 1) + io_flags * 65536)
      f    == buffer_fill_data(m.csum, m.token, m.bufs[buf], lba, lba_count)
      log1 == cmd_log_add_cmd(m.log, t, buf, lba, lba_count, 512, cmd, cb_fn, cb_arg)
  IN  spdk_nvme_ctrlr_cmd_io_raw(
        IF is_read \/ rc # 0 THEN [m EXCEPT !.log = log1]
        ELSE [m EXCEPT !.csum = f.csum, !.token = f.token, !.bufs[buf] = f.buf,
                       !.log = log1],
        cmd, buf, <<>>, m.log.tail_index, rc)

ns_cmd_read_write(m, t, is_read, buf, lba, lba_count, io_flags, cb_fn, cb_arg, rc) ==
  LET cmd  == Cmd(IF is_read THEN 2 ELSE 1, lba, 0, (lba_count - 1) + io_flags * 65536)
      f    == buffer_fill_data(m.csum, m.token, m.bufs[buf], lba, lba_count)
      log1 == cmd_log_add_cmd(m.log, t, buf, lba, lba_count, 512, cmd, cb_fn, cb_arg)
  IN  spdk_nvme_ctrlr_cmd_io_raw(
        IF is_read THEN [m EXCEPT !.log = log1]
        ELSE [m EXCEPT !.csum = f.csum, !.token = f.token, !.bufs[buf] = f.buf,
                       !.log = log1],
        cmd, buf, <<>>, m.log.tail_index, rc)

\* spdk_nvme_cpl_is_error
nvme_cpl_is_error(cpl) == cpl.status.sct # 0 \/ cpl.status.sc # 0

\* the synthetic status of a failed verification
UNRECOVERED_READ == Status(2, 129)

\* cmd_log_add_cpl_cb up to the user callback: the entry gets the completion
\* time, the completion image with the latency in dword 2 and, for a logged
\* read with a buffer that fails verification, the synthetic status.
cmd_log_add_cpl_cb(log, bufs_, csum, t, cb_ctx, cpl) ==
  LET e    == log.table[cb_ctx]
      cpl1 == Cpl(timeval_to_us(timersub(t, e.time_cmd)), cpl.status)
      vret == IF e.cmd.opc = 2 /\ e.buf # NOBUF
              THEN buffer_verify_data(csum, bufs_[e.buf], e.lba, e.lba_count)
              ELSE 0
      cpl2 == IF vret # 0 THEN [cpl1 EXCEPT !.status = UNRECOVERED_READ] ELSE cpl1
  IN  [log EXCEPT !.table[cb_ctx] = [@ EXCEPT !.time_cpl = t, !.cpl = cpl2]]

\* -------------------------------------------------------------- history
\* What the properties speak about and the program does not keep: for each
\* lba the payload of the last write through ns_cmd_read_write (NoBlock when
\* none, or cleared since), the lbas ever written or made uncorrectable, the
\* lbas uncorrectable now, the lbas trimmed and untouched since; the first
\* failure of the driver's submit call in a run, and whether a completion
\* handed to the run's callback reported an error, with the 11-bit code of
\* the first such completion and of the first one whose code is not 0x0281
\* (0 when none); the reservations of the token, in the order of their
\* fetch-adds.
\* The commands a script has issued are counted, and the last one is kept:
\* what it was, the lbas it named, and the result of the driver's submit call.
\* The calls of cmd_log_add_cmd on the queue since its table was created are
\* counted, and the starting lbas of the I/Os an ioworker run sent are kept
\* in the order it sent them, with the arguments ioworker_entry was called
\* with (NoCall before the call), and the runs are numbered from 1.  Of the
\* commands of a run the driver completed, the reads are counted.  A run is
\* followed until it has sent cap I/Os.
NoCall == [qdepth |-> 0]
NoOp == [op |-> "none", lbas |-> {}, rc |-> 0]

HistInit ==
  [written |-> [l \in 0..(NSZE - 1) |-> NoBlock], touched |-> {}, poisoned |-> {},
   trimmed |-> {}, submit_err |-> 0, cpl_err |-> FALSE, ncmd |-> 0, last |-> NoOp,
   resv |-> <<>>, nlog |-> 0, lbas |-> <<>>, first_err |-> 0, first_other |-> 0,
   call |-> NoCall, run |-> 1, reads_done |-> 0, cap |-> MaxSent]

Range(lba, n) == {l \in 0..(NSZE - 1) : l >= lba /\ l < lba + n}

\* after ns_cmd_read_write(is_read = false) filled buffer buf
HistWrite(h, buf, lba, lba_count) ==
  [h EXCEPT !.written = [l \in DOMAIN @ |->
                           IF l \in Range(lba, lba_count) THEN buf[l - lba + 1] ELSE @[l]],
            !.touched = @ \cup Range(lba, lba_count),
            !.poisoned = @ \ Range(lba, lba_count),
            !.trimmed = @ \ Range(lba, lba_count)]

\* after the slots of lbas were cleared
HistClear(h, lbas, uncorr) ==
  [h EXCEPT !.written = [l \in DOMAIN @ |-> IF l \in lbas THEN NoBlock ELSE @[l]],
            !.touched = IF uncorr THEN @ \cup lbas ELSE @,
            !.poisoned = IF uncorr THEN @ \cup lbas ELSE @ \ lbas,
            !.trimmed = IF uncorr THEN @ \ lbas ELSE @ \cup lbas]

\* after a completion with image cpl was handed to the run's callback
HistCpl(h, cpl) ==
  LET code == cpl.status.sct * 256 + cpl.status.sc
  IN  IF cpl.status.sct = 0 /\ cpl.status.sc = 0 THEN h
      ELSE [h EXCEPT !.cpl_err = TRUE,
                     !.first_err = IF @ = 0 THEN code ELSE @,
                     !.first_other = IF @ = 0 /\ code # 641 THEN code ELSE @]

\* ns_cmd_read_write, with the history of the write kept
rw_traced(x, t, is_read, buf, lba, lba_count, cb_fn, cb_arg, rc) ==
  LET m2 == ns_cmd_read_write(x.m, t, is_read, buf, lba, lba_count, 0, cb_fn, cb_arg, rc)
  IN  [x EXCEPT !.m = m2,
                !.hist = [(IF is_read THEN @
                           ELSE HistWrite(@, m2.bufs[buf], lba, lba_count))
                          EXCEPT !.nlog = @ + 1]]

\* What a callback was handed, with what the trampoline saw: the command
\* the driver completed and the buffer it was submitted with, the device's
\* status, the log entry, the buffer and the checksum table at that moment.
Delivery(c, e, buf, csum, h) ==
  [id |-> c.id, cmd |-> c.cmd, cmd_buf |-> c.buf, dev_status |-> c.status,
   entry |-> e, cpl |-> e.cpl, data |-> buf, csum |-> csum, hist |-> h]

NoDelivery ==
  [id |-> -1, cmd |-> ZeroEntry.cmd, cmd_buf |-> NOBUF, dev_status |-> SUCCESS,
   entry |-> ZeroEntry, cpl |-> ZeroEntry.cpl, data |-> <<>>, csum |-> <<>>,
   hist |-> HistInit]

\* -------------------------------------------------------------- ioworker
ALIGN_UP(n, a) == IF n % a # 0 THEN n + a - (n % a) ELSE n
ALIGN_DOWN(n, a) == n - (n % a)

\* The state an ioworker run acts on, as one record.
Worker ==
  [m |-> Machine, hist |-> hist, args |-> args, rets |-> rets, gctx |-> gctx,
   io_ctx |-> io_ctx, sts |-> g_ioworker_status_table]

SetWorker(x) ==
  /\ SetMachine(x.m)
  /\ hist' = x.hist
  /\ args' = x.args
  /\ rets' = x.rets
  /\ gctx' = x.gctx
  /\ io_ctx' = x.io_ctx
  /\ g_ioworker_status_table' = x.sts

\* a mutant of ioworker_send_one_is_finish: the count is compared one late
ioworker_send_one_is_finish_late(a, c, t) ==
  \/ c.io_count_sent = a.io_count + 1
  \/ timercmp_gt(t, c.due_time)

\* ioworker_send_one_is_finish, with t the time it reads
ioworker_send_one_is_finish(a, c, t) ==
  \/ c.io_count_sent = a.io_count
  \/ timercmp_gt(t, c.due_time)

\* the time us microseconds after t: what the clock shows when usleep(us),
\* called at t, returns
usleep(t, us) ==
  TV(t.tv_sec + (t.tv_usec + us) \div US_PER_S, (t.tv_usec + us) % US_PER_S)

\* a mutant of ioworker_one_io_throttle: io_due_time advances only when the
\* handler slept
ioworker_one_io_throttle_slept(c, t) ==
  [io_due_time |-> IF timercmp_gt(c.io_due_time, t)
                   THEN timeradd(c.io_due_time, c.io_delay_time)
                   ELSE c.io_due_time,
   t |-> IF timercmp_gt(c.io_due_time, t)
         THEN usleep(t, timeval_to_us(timersub(c.io_due_time, t))) ELSE t]

\* ioworker_one_io_throttle: [the io_due_time after it, the time after its sleep]
ioworker_one_io_throttle(c, t) ==
  [io_due_time |-> timeradd(c.io_due_time, c.io_delay_time),
   t |-> IF timercmp_gt(c.io_due_time, t)
         THEN usleep(t, timeval_to_us(timersub(c.io_due_time, t))) ELSE t]

\* ioworker_update_rets: the returns, and the latency
ioworker_update_rets(ctx, r, t) ==
  LET latency == timeval_to_us(timersub(t, ctx.time_sent))
  IN  [rets |-> [r EXCEPT !.latency_max_us = IF latency > @ THEN latency ELSE @,
                          !.io_count_read = IF ctx.is_read THEN @ + 1 ELSE @,
                          !.io_count_write = IF ctx.is_read THEN @ ELSE @ + 1],
       latency |-> latency]

\* ioworker_update_io_count_per_second
ioworker_update_io_count_per_second(x) ==
  LET current_io_count == x.rets.io_count_read + x.rets.io_count_write
  IN  [x EXCEPT !.gctx.time_next_sec = timeradd_second(@, 1),
                !.args.per_second_array =
                   Append(@, current_io_count - x.gctx.io_count_till_last_sec),
                !.gctx.last_sec = @ + 1,
                !.gctx.io_count_till_last_sec = current_io_count]

\* ioworker_send_one_is_read, with rnd the value random() returns
ioworker_send_one_is_read(read_percentage, rnd) == rnd % 100 < read_percentage

\* a mutant of ioworker_send_one_lba_sequential: the wrap is one lba early
ioworker_send_one_lba_sequential_ge(a, c) ==
  LET r == c.sequential_lba + a.lba_align
  IN  IF r >= a.region_end THEN a.region_start ELSE r

ioworker_send_one_lba_sequential(a, c) ==
  LET r == c.sequential_lba + a.lba_align
  IN  IF r > a.region_end THEN a.region_start ELSE r

\* with rnd the value random() returns
ioworker_send_one_lba_random(a, rnd) ==
  (rnd % (a.region_end - a.region_start)) + a.region_start

\* ioworker_send_one_lba: [the lba, the sequential_lba after it]
ioworker_send_one_lba(a, c, rnd) ==
  LET r == IF a.lba_random = 0 THEN ioworker_send_one_lba_sequential(a, c)
           ELSE ioworker_send_one_lba_random(a, rnd)
  IN  [lba |-> ALIGN_DOWN(r, a.lba_align),
       sequential_lba |-> IF a.lba_random = 0 THEN r ELSE c.sequential_lba]

\* ioworker_send_one after ns_cmd_read_write returned rc and left state x2
send_one_result(x2, t, ctx, is_read, rc) ==
  IF rc # 0
  THEN [x |-> [x2 EXCEPT !.gctx.flag_finish = TRUE,
                         !.hist.submit_err = IF @ = 0 THEN rc ELSE @],
        ret |-> rc]
  ELSE [x |-> [x2 EXCEPT !.gctx.io_count_sent = @ + 1,
                         !.sts.io_count_sent = x2.gctx.io_count_sent + 1,
                         !.io_ctx[ctx].is_read = is_read,
                         !.io_ctx[ctx].time_sent = t],
        ret |-> 0]

\* ioworker_send_one on context ctx at time t; rnd1 and rnd2 are the values of
\* its two random() calls and rc is the result of the driver's submit call.
\* The result: the state after it, and its return value.
ioworker_send_one(x, t, ctx, rnd1, rnd2, rc) ==
  LET is_read == ioworker_send_one_is_read(x.args.read_percentage, rnd1)
      l       == ioworker_send_one_lba(x.args, x.gctx, rnd2)
  IN  CHOOSE r \in
        { send_one_result(x2, t, ctx, is_read, rc) :
            x2 \in { rw_traced([x EXCEPT !.gctx.sequential_lba = l.sequential_lba,
                                         !.hist.lbas = Append(@, l.lba)],
                               t, is_read, ctx, l.lba, x.args.lba_size,
                               "ioworker_one_cb", ctx, rc) } } : TRUE

\* the 11-bit status code the worker extracts: (status >> 1) & 0x7ff
status_code(cpl) == cpl.status.sct * 256 + cpl.status.sc

\* ioworker_one_cb, "gctx->io_count_cplt ++" to "update io count per latency"
cb_count(x, t, ctx) ==
  LET u   == ioworker_update_rets(x.io_ctx[ctx], x.rets, t)
      lat == Min(US_PER_S - 1, u.latency)
  IN  [x EXCEPT !.gctx.io_count_cplt = @ + 1,
                !.sts.io_count_cplt = x.gctx.io_count_cplt + 1,
                !.rets = u.rets,
                !.args.per_latency_array =
                   IF x.args.io_counter_per_latency = NULL THEN @
                   ELSE IF lat \in DOMAIN @ THEN [@ EXCEPT ![lat] = @ + 1]
                   ELSE @ @@ (lat :> 1)]

\* ioworker_one_cb, "throttle IOPS by delay"
cb_throttle(c, t) ==
  IF c.io_delay_time.tv_usec # 0 THEN ioworker_one_io_throttle(c, t)
  ELSE [io_due_time |-> c.io_due_time, t |-> t]

\* a mutant of cb_error: 0x0281 is an error whatever the workload
cb_error_nomix(x, cpl) ==
  IF nvme_cpl_is_error(cpl)
  THEN [x EXCEPT !.gctx.flag_finish = TRUE,
                 !.rets.error = IF @ = 0 THEN status_code(cpl) ELSE @]
  ELSE x

\* a mutant of cb_error: the last error code is the one kept
cb_error_last(x, cpl) ==
  IF nvme_cpl_is_error(cpl)
     /\ ~(status_code(cpl) = 641 /\ x.args.read_percentage < 100)
  THEN [x EXCEPT !.gctx.flag_finish = TRUE, !.rets.error = status_code(cpl)]
  ELSE x

\* ioworker_one_cb, "if (true == nvme_cpl_is_error(cpl))"; 641 is 0x0281
cb_error(x, cpl) ==
  IF nvme_cpl_is_error(cpl)
     /\ ~(status_code(cpl) = 641 /\ x.args.read_percentage < 100)
  THEN [x EXCEPT !.gctx.flag_finish = TRUE,
                 !.rets.error = IF @ = 0 THEN status_code(cpl) ELSE @]
  ELSE x

\* a mutant of cb_per_second: a bucket is written by every handler
cb_per_second_always(x, t) ==
  IF x.args.io_counter_per_second # NULL
  THEN ioworker_update_io_count_per_second(x)
  ELSE x

\* ioworker_one_cb, "update io counter per second when required"
cb_per_second(x, t) ==
  IF x.args.io_counter_per_second # NULL /\ timercmp_gt(t, x.gctx.time_next_sec)
  THEN ioworker_update_io_count_per_second(x)
  ELSE x

\* ioworker_one_cb, "check if all io are sent"
cb_finish(x, t) ==
  IF ~x.gctx.flag_finish
  THEN [x EXCEPT !.gctx.flag_finish = ioworker_send_one_is_finish(x.args, x.gctx, t)]
  ELSE x

\* a mutant of cb_send: a second I/O is sent on the same context
cb_send_twice(x, t, ctx, rnd1, rnd2, rc) ==
  IF ~x.gctx.flag_finish
  THEN ioworker_send_one(ioworker_send_one(x, t, ctx, rnd1, rnd2, rc).x,
                         t, ctx, rnd1, rnd2, rc).x
  ELSE x

\* ioworker_one_cb, "send more io": the return value of ioworker_send_one is
\* dropped
cb_send(x, t, ctx, rnd1, rnd2, rc) ==
  IF ~x.gctx.flag_finish THEN ioworker_send_one(x, t, ctx, rnd1, rnd2, rc).x
  ELSE x

\* ioworker_one_cb for context ctx with completion cpl, entered at time t in
\* state x: its steps in the order of the code, each on the state the one
\* before left.  The throttle may sleep, so what follows it reads a later time.
ioworker_one_cb(x, t, ctx, cpl, rnd1, rnd2, rc) ==
  \E x1 \in {cb_count(x, t, ctx)} :
  \E th \in {cb_throttle(x1.gctx, t)} :
  \E x2 \in {cb_error([x1 EXCEPT !.gctx.io_due_time = th.io_due_time], cpl)} :
  \E x3 \in {cb_per_second(x2, t)} :
  \E x4 \in {cb_finish(x3, th.t)} :
  \E x5 \in {cb_send(x4, th.t, ctx, rnd1, rnd2, rc)} :
    /\ x5.gctx.io_count_sent <= x5.hist.cap
    /\ SetWorker(x5)
    /\ now' = th.t

\* struct ioworker_rets as ioworker_entry initialises it
RetsZero ==
  [io_count_read |-> 0, io_count_write |-> 0, latency_max_us |-> 0,
   mseconds |-> 0, error |-> 0]

\* struct ioworker_global_ctx after memset(&gctx, 0, sizeof(gctx))
GctxZero ==
  [due_time |-> TV(0, 0), io_due_time |-> TV(0, 0), io_delay_time |-> TV(0, 0),
   time_next_sec |-> TV(0, 0), io_count_till_last_sec |-> 0, sequential_lba |-> 0,
   io_count_sent |-> 0, io_count_cplt |-> 0, last_sec |-> 0, flag_finish |-> FALSE]

\* a - b in unsigned long: below zero it wraps, -1 to ULONG_MAX
ulong_sub(a, b) == IF a >= b THEN a - b ELSE ULONG_MAX + ((a - b) + 1)

\* ioworker_entry, "revise args" and "adjust region": the caller's args after it
ioworker_revise_args(a) ==
  LET a1 == [a EXCEPT !.io_count = IF @ = 0 THEN ULONG_MAX ELSE @,
                      !.seconds = IF @ = 0 \/ @ > DAY_S THEN DAY_S ELSE @,
                      !.region_end = IF @ > NSZE THEN NSZE ELSE @]
      a2 == [a1 EXCEPT !.region_start = ALIGN_UP(@, a1.lba_align),
                       !.region_end = ALIGN_DOWN(ulong_sub(@, a1.lba_size + 1),
                                                 a1.lba_align)]
      a3 == [a2 EXCEPT !.lba_start = IF @ < a2.region_start THEN a2.region_start ELSE @]
  IN  [a3 EXCEPT !.qdepth = IF a3.io_count < @ THEN a3.io_count ELSE @]

\* ioworker_entry, "init global ctx", with a the revised args and t the time
ioworker_init_gctx(a, t) ==
  LET delay == TV(0, IF a.iops # 0 THEN US_PER_S \div a.iops ELSE 0)
  IN  [GctxZero EXCEPT !.sequential_lba = a.lba_start,
                       !.due_time = timeradd_second(t, a.seconds),
                       !.io_delay_time = delay,
                       !.io_due_time = timeradd(t, delay),
                       !.time_next_sec = timeradd_second(t, 1)]

\* ioworker_entry, "check args": the asserts
ArgsValid(a) ==
  /\ a.read_percentage <= 100
  /\ (a.io_count # 0 \/ a.seconds # 0)
  /\ a.seconds < DAY_S
  /\ a.lba_size # 0
  /\ a.region_start < a.region_end
  /\ a.read_percentage >= 0
  /\ a.qdepth <= CMD_LOG_DEPTH \div 2

\* ioworker_entry when an assert fails: abort() ends the process, and the
\* call does not return
EntryAssert ==
  /\ pc = "idle"
  /\ ~ArgsValid(args)
  /\ rets' = RetsZero
  /\ pc' = "aborted"
  /\ hist' = [hist EXCEPT !.call = args]
  /\ delivered' = NoDelivery
  /\ UNCHANGED << now, g_driver_csum_table_ptr, g_driver_io_token_ptr,
                  g_ioworker_status_table, cmd_log_queue_table, bufs, media,
                  inflight, nsubmit, args, gctx, io_ctx, test_start,
                  batch_i, ret, procs, memzones >>

\* a mutant of EntryTooLarge: the arguments are revised before the check
EntryTooLarge_revised ==
  /\ pc = "idle"
  /\ ArgsValid(args)
  /\ args.lba_size > MAX_XFER_BLOCKS
  /\ rets' = [RetsZero EXCEPT !.error = 2]
  /\ ret' = -2
  /\ pc' = "done"
  /\ hist' = [hist EXCEPT !.call = args]
  /\ delivered' = NoDelivery
  /\ args' = [args EXCEPT !.io_count = IF @ = 0 THEN ULONG_MAX ELSE @,
                          !.seconds = IF @ = 0 \/ @ > DAY_S THEN DAY_S ELSE @]
  /\ UNCHANGED << now, g_driver_csum_table_ptr, g_driver_io_token_ptr,
                  g_ioworker_status_table, cmd_log_queue_table, bufs, media,
                  inflight, nsubmit, gctx, io_ctx, test_start,
                  batch_i, procs, memzones >>

\* ioworker_entry when the transfer is larger than the controller takes
EntryTooLarge ==
  /\ pc = "idle"
  /\ ArgsValid(args)
  /\ args.lba_size > MAX_XFER_BLOCKS
  /\ rets' = [RetsZero EXCEPT !.error = 2]
  /\ ret' = -2
  /\ pc' = "done"
  /\ hist' = [hist EXCEPT !.call = args]
  /\ delivered' = NoDelivery
  /\ UNCHANGED << now, g_driver_csum_table_ptr, g_driver_io_token_ptr,
                  g_ioworker_status_table, cmd_log_queue_table, bufs, media,
                  inflight, nsubmit, args, gctx, io_ctx, test_start,
                  batch_i, procs, memzones >>

\* ioworker_entry up to its first loop
EntryStart ==
  /\ pc = "idle"
  /\ ArgsValid(args)
  /\ args.lba_size <= MAX_XFER_BLOCKS
  /\ hist' = [hist EXCEPT !.call = args]
  /\ rets' = RetsZero
  /\ args' = ioworker_revise_args(args)
  /\ gctx' = ioworker_init_gctx(args', now)
  /\ test_start' = now
  /\ ret' = 0
  /\ batch_i' = 0
  /\ pc' = IF args'.qdepth > 0 THEN "batch" ELSE "poll"
  /\ delivered' = NoDelivery
  /\ UNCHANGED << now, g_driver_csum_table_ptr, g_driver_io_token_ptr,
                  g_ioworker_status_table, cmd_log_queue_table, bufs, media,
                  inflight, nsubmit, io_ctx, procs, memzones >>

\* one round of the first loop: the context's buffer is allocated (zeroed)
\* and its first I/O sent; the return value of ioworker_send_one is dropped.
BatchSend(rnd1, rnd2, rc) ==
  /\ pc = "batch"
  /\ batch_i < args.qdepth
  /\ \E r \in {ioworker_send_one(
                 [Worker EXCEPT !.m.bufs[batch_i] =
                                   [k \in 1..args.lba_size |-> ZeroBlock]],
                 now, batch_i, rnd1, rnd2, rc)} :
       /\ r.x.gctx.io_count_sent <= r.x.hist.cap
       /\ SetWorker(r.x)
  /\ batch_i' = batch_i + 1
  /\ pc' = IF batch_i + 1 < args.qdepth THEN "batch" ELSE "poll"
  /\ delivered' = NoDelivery
  /\ UNCHANGED << now, media, test_start, ret, procs, memzones >>

\* the while condition of ioworker_entry
loop_continues(c) == c.io_count_sent # c.io_count_cplt \/ ~c.flag_finish

\* a mutant of watchdog_expired: the grace is not added
watchdog_expired_nograce(a, start, t) ==
  ioworker_get_duration(start, t) > a.seconds * 1000

\* the watchdog's condition
watchdog_expired(a, start, t) ==
  ioworker_get_duration(start, t) > a.seconds * 1000 + WATCHDOG_MS

\* ioworker_entry after its while loop: the duration, the buffers freed
Finish(r) ==
  /\ rets' = [rets EXCEPT !.mseconds = ioworker_get_duration(test_start, now)]
  /\ bufs' = [b \in DOMAIN bufs |-> IF b < args.qdepth THEN <<>> ELSE bufs[b]]
  /\ ret' = r
  /\ pc' = "done"
  /\ delivered' = NoDelivery
  /\ UNCHANGED << now, g_driver_csum_table_ptr, g_driver_io_token_ptr,
                  g_ioworker_status_table, cmd_log_queue_table, media, inflight,
                  nsubmit, args, gctx, io_ctx, test_start, batch_i,
                  hist, procs, memzones >>

\* a mutant of LoopExit: the loop ends as soon as the flag is set
LoopExit_flagonly ==
  /\ pc \in {"poll", "proc"}
  /\ gctx.flag_finish
  /\ Finish(ret)

\* The while loop.  At "poll" its condition is evaluated for the first time;
\* at "proc" the worker is inside spdk_nvme_qpair_process_completions, and a
\* step of the loop from there is the call returning and the condition and
\* the watchdog being evaluated again (a round that finds neither leaves the
\* state as it is).

\* the while condition is false: ioworker_entry returns ret
LoopExit ==
  /\ pc \in {"poll", "proc"}
  /\ ~loop_continues(gctx)
  /\ Finish(ret)

\* the watchdog breaks the loop: ioworker_entry returns -3
LoopAbort ==
  /\ pc \in {"poll", "proc"}
  /\ loop_continues(gctx)
  /\ watchdog_expired(args, test_start, now)
  /\ Finish(-3)

\* the loop calls spdk_nvme_qpair_process_completions
LoopPoll ==
  /\ pc = "poll"
  /\ loop_continues(gctx)
  /\ ~watchdog_expired(args, test_start, now)
  /\ pc' = "proc"
  /\ delivered' = NoDelivery
  /\ UNCHANGED << now, g_driver_csum_table_ptr, g_driver_io_token_ptr,
                  g_ioworker_status_table, cmd_log_queue_table, bufs, media,
                  inflight, nsubmit, args, rets, gctx, io_ctx,
                  test_start, batch_i, ret, hist, procs, memzones >>

\* spdk_nvme_qpair_process_completions reaps command c of the worker's qpair:
\* the trampoline, then the entry's callback, ioworker_one_cb, which may send
\* the next I/O.
WorkerComplete(c, rnd1, rnd2, rc) ==
  /\ pc = "proc"
  /\ c \in inflight
  /\ c.state = "executed"
  /\ \E log1 \in {cmd_log_add_cpl_cb(cmd_log_queue_table, bufs,
                                     g_driver_csum_table_ptr, now, c.cb_ctx,
                                     Cpl(0, c.status))} :
     \E e \in {log1.table[c.cb_ctx]} :
       /\ e.cb_fn = "ioworker_one_cb"
       /\ ioworker_one_cb([Worker EXCEPT !.m.log = log1, !.m.inflight = @ \ {c},
                                          !.hist = [HistCpl(@, e.cpl) EXCEPT
                                            !.reads_done =
                                              IF c.cmd.opc = 2 THEN @ + 1 ELSE @]],
                          now, e.cb_arg, e.cpl, rnd1, rnd2, rc)
       /\ delivered' = Delivery(c, e, IF e.buf = NOBUF THEN <<>> ELSE bufs[e.buf],
                                g_driver_csum_table_ptr, hist)
  /\ UNCHANGED << media, test_start, pc, batch_i, ret, procs, memzones >>

\* ---------------------------------------------------------------- device
cmd_lba(cmd) == cmd.cdw10
cmd_nlb(cmd) == (cmd.cdw12 % 65536) + 1

\* what a read transfers for a block of the medium
ReadData(blk, junk) ==
  CASE junk = "lba" -> [blk EXCEPT !.lba = @ + 1]
    [] junk = "crc" -> [blk EXCEPT !.rest = 1 - @]
    [] OTHER -> blk

RECURSIVE dsm_media(_, _)
dsm_media(md, ranges) ==
  IF ranges = <<>> THEN md
  ELSE dsm_media([l \in DOMAIN md |->
                    IF l \in Range(ranges[1].starting_lba, ranges[1].length)
                    THEN ZeroBlock ELSE md[l]], Tail(ranges))

\* The device executes queued command c and posts status st.  A successful
\* write stores its payload, a successful deallocate zeroes its ranges, a
\* read transfers the blocks of the medium, or junk, into its buffer.
DeviceExec(c, st, junk) ==
  /\ c \in inflight
  /\ c.state = "queued"
  /\ LET lba == cmd_lba(c.cmd)
         n   == cmd_nlb(c.cmd)
         ok  == st = SUCCESS
     IN  /\ media' = IF ok /\ c.cmd.opc = 1 /\ c.buf # NOBUF /\ Len(bufs[c.buf]) >= n
                     THEN [l \in DOMAIN media |->
                             IF l \in Range(lba, n) THEN bufs[c.buf][l - lba + 1]
                             ELSE media[l]]
                     ELSE IF ok /\ c.cmd.opc = 9
                     THEN dsm_media(media, SubSeq(c.ranges, 1, c.cmd.cdw10 + 1))
                     ELSE media
         /\ bufs' = IF ok /\ c.cmd.opc = 2 /\ c.buf # NOBUF /\ Len(bufs[c.buf]) >= n
                    THEN [bufs EXCEPT ![c.buf] =
                            [k \in 1..Len(@) |->
                               IF k <= n THEN ReadData(media[lba + k - 1], junk)
                               ELSE @[k]]]
                    ELSE bufs
  /\ inflight' = (inflight \ {c}) \cup {[c EXCEPT !.state = "executed", !.status = st]}
  /\ delivered' = NoDelivery
  /\ UNCHANGED << now, g_driver_csum_table_ptr, g_driver_io_token_ptr,
                  g_ioworker_status_table, cmd_log_queue_table, nsubmit,
                  args, rets, gctx, io_ctx, test_start, pc, batch_i,
                  ret, hist, procs, memzones >>

\* Time passes while a run or a script is under way; the clock is followed from
\* its start, in steps of seconds and of days.
Tick(d) ==
  /\ pc \notin {"idle", "done", "aborted"}
  /\ LET e == timersub(now, Epoch).tv_sec
     IN  IF d.tv_sec < DAY_S THEN e % DAY_S < MaxNow ELSE e \div DAY_S < MaxDays
  /\ now' = timeradd(now, d)
  /\ delivered' = NoDelivery
  /\ UNCHANGED << g_driver_csum_table_ptr, g_driver_io_token_ptr,
                  g_ioworker_status_table, cmd_log_queue_table, bufs, media,
                  inflight, nsubmit, args, rets, gctx, io_ctx,
                  test_start, pc, batch_i, ret, hist, procs, memzones >>

\* -------------------------------------------------- the ioworker's runs
\* the values random() returns
RandomValues == {0, 1, 99}
\* the results of the driver's submit call
SubmitResults == {0, -ENOMEM}
\* the statuses the device posts: success, Data Transfer Error
DeviceStatuses == {SUCCESS, Status(0, 4)}
\* the steps of the clock
TickSteps == {TV(6, 0), TV(DAY_S, 0)}

ArgsBase ==
  [lba_start |-> 0, lba_size |-> 1, lba_align |-> 1, lba_random |-> 0,
   region_start |-> 0, region_end |-> NSZE, read_percentage |-> 0, iops |-> 0,
   io_count |-> 1, seconds |-> 0, qdepth |-> 1,
   io_counter_per_second |-> NULL, io_counter_per_latency |-> NULL,
   per_second_array |-> <<>>, per_latency_array |-> <<>>]

\* The runs the model follows: the caller's arguments, and what earlier
\* commands left on the namespace ("fresh": nothing; "written": lba 1 was
\* written and the device holds the payload; "uncorr": lba 1 was made
\* uncorrectable).
Run(a, pre) == [args |-> a, pre |-> pre]
Scenarios ==
  { \* a mixed workload under a time budget
    Run([ArgsBase EXCEPT !.qdepth = 2, !.io_count = 3, !.seconds = 1,
                         !.read_percentage = 50], "fresh"),
    \* writes only, a count budget
    Run([ArgsBase EXCEPT !.qdepth = 1, !.io_count = 3], "fresh"),
    Run([ArgsBase EXCEPT !.qdepth = 2, !.io_count = 2, !.seconds = 1], "written"),
    \* reads only; the queue depth is above the count
    Run([ArgsBase EXCEPT !.qdepth = 2, !.io_count = 1, !.read_percentage = 100],
        "written"),
    Run([ArgsBase EXCEPT !.qdepth = 2, !.io_count = 3, !.read_percentage = 100,
                         !.seconds = 1], "uncorr"),
    \* no count budget: the run ends with its time
    Run([ArgsBase EXCEPT !.qdepth = 2, !.io_count = 0, !.seconds = 1], "fresh"),
    \* random lbas, two blocks an I/O
    Run([ArgsBase EXCEPT !.qdepth = 1, !.io_count = 2, !.seconds = 1,
                         !.read_percentage = 50, !.lba_random = 1,
                         !.lba_size = 2], "written"),
    \* throttled, with both histograms
    Run([ArgsBase EXCEPT !.qdepth = 2, !.io_count = 2, !.read_percentage = 100,
                         !.iops = 1, !.io_counter_per_second = "array",
                         !.io_counter_per_latency = "array"], "written"),
    \* a transfer larger than the controller's
    Run([ArgsBase EXCEPT !.lba_size = MAX_XFER_BLOCKS + 1], "fresh") }

\* the block an earlier write left at lba 1, with token 9
PreBlock == Block(1, 9, 0)

PreCsum(pre) ==
  [l \in 0..(NSZE - 1) |->
     IF l = 1 /\ pre = "written" THEN buffer_calc_csum(PreBlock)
     ELSE IF l = 1 /\ pre = "uncorr" THEN ALL_ONES
     ELSE 0]

PreMedia(pre) ==
  [l \in 0..(NSZE - 1) |-> IF l = 1 /\ pre = "written" THEN PreBlock ELSE ZeroBlock]

PreHist(pre) ==
  IF pre = "written"
  THEN [HistInit EXCEPT !.written[1] = PreBlock, !.touched = {1}]
  ELSE IF pre = "uncorr"
  THEN [HistInit EXCEPT !.touched = {1}, !.poisoned = {1}]
  ELSE HistInit

\* what does not depend on the run
InitCommon ==
  /\ now = Epoch
  /\ g_ioworker_status_table = [io_count_sent |-> 0, io_count_cplt |-> 0]
  /\ cmd_log_queue_table = cmd_log_table_create
  /\ inflight = {}
  /\ nsubmit = 0
  /\ delivered = NoDelivery
  /\ rets = RetsZero
  /\ gctx = GctxZero
  /\ io_ctx = [i \in 0..1 |-> [is_read |-> FALSE, time_sent |-> TV(0, 0)]]
  /\ test_start = TV(0, 0)
  /\ batch_i = 0
  /\ ret = 0
  /\ procs = <<>>
  /\ memzones = ZoneNames

\* ioworker_entry is about to be called for one of the runs of S
InitRuns(S) ==
  /\ InitCommon
  /\ bufs = [b \in 0..1 |-> <<>>]
  /\ \E sc \in S :
       /\ args = sc.args
       /\ g_driver_csum_table_ptr = PreCsum(sc.pre)
       /\ media = PreMedia(sc.pre)
       /\ hist = PreHist(sc.pre)
       /\ g_driver_io_token_ptr = IF sc.pre = "written" THEN 10 ELSE 0
  /\ pc = "idle"

Init == InitRuns(Scenarios)

Next ==
  \/ EntryTooLarge
  \/ EntryStart
  \/ \E r1 \in RandomValues, r2 \in RandomValues, rc \in SubmitResults :
       BatchSend(r1, r2, rc)
  \/ LoopExit
  \/ LoopAbort
  \/ LoopPoll
  \/ \E c \in inflight, r1 \in RandomValues, r2 \in RandomValues,
        rc \in SubmitResults : WorkerComplete(c, r1, r2, rc)
  \/ \E c \in inflight, st \in DeviceStatuses, junk \in {"none", "crc"} :
       DeviceExec(c, st, junk)
  \/ \E d \in TickSteps : Tick(d)

Spec == Init /\ [][Next]_vars

\* ------------------------------------------ calls with arguments not valid
\* the calls an assert of ioworker_entry stops, one for each of its checks
InvalidRuns ==
  { Run([ArgsBase EXCEPT !.read_percentage = 101], "fresh"),
    Run([ArgsBase EXCEPT !.io_count = 0, !.seconds = 0], "fresh"),
    Run([ArgsBase EXCEPT !.seconds = DAY_S + 1], "fresh"),
    Run([ArgsBase EXCEPT !.seconds = DAY_S], "fresh"),
    Run([ArgsBase EXCEPT !.lba_size = 0], "fresh"),
    Run([ArgsBase EXCEPT !.region_start = NSZE], "fresh"),
    Run([ArgsBase EXCEPT !.qdepth = (CMD_LOG_DEPTH \div 2) + 1], "fresh"),
    \* not valid, and larger than the controller takes
    Run([ArgsBase EXCEPT !.read_percentage = 101,
                         !.lba_size = MAX_XFER_BLOCKS + 1], "fresh") }

InitArgs == InitRuns(Scenarios \cup InvalidRuns)

NextArgs == EntryAssert \/ Next

SpecArgs == InitArgs /\ [][NextArgs]_vars

\* ------------------------------------------------- commands of a script
\* A test script drives the namespace itself: reads and writes through
\* ns_cmd_read_write, raw commands through nvme_send_cmd_raw on the io qpair,
\* calls of crc32_clear, and qpair_wait_completion to reap completions.

\* the lba ranges (lba, lba_count) the script writes, reads, and clears
WriteRanges == { <<1, 1>>, <<1, 2>> }
ReadRanges  == { <<2, 1>>, <<1, 2>> }
ClearRanges == { <<2, 1>>, <<1, 2>> }
\* the range list of its Dataset Management commands, sent whole or in part
ScriptDsm ==
  << [starting_lba |-> 1, length |-> 1], [starting_lba |-> 2, length |-> 1] >>

\* a script is running: one that works on the oracle, or one that fills the
\* command log
Scripting == pc \in {"script", "log"}
\* the commands the script issues: the second kind goes round the ring
CmdBudget == IF pc = "log" THEN CMD_LOG_DEPTH + 2 ELSE MaxCmds

\* a buffer no command in flight uses
FreeBuf(b) ==
  /\ b \in DOMAIN bufs
  /\ \A c \in inflight : c.buf # b
  /\ \A k \in DOMAIN bufs : k < b => \E c \in inflight : c.buf = k

ScriptUnchanged ==
  /\ delivered' = NoDelivery
  /\ UNCHANGED << now, g_ioworker_status_table, media, test_start, pc, batch_i,
                  ret, procs, memzones >>

\* the script calls ns_cmd_read_write with a buffer of its own
CmdReadWrite(is_read, b, lba, lba_count, rc) ==
  /\ Scripting
  /\ hist.ncmd < CmdBudget
  /\ FreeBuf(b)
  /\ lba + lba_count <= NSZE
  /\ lba_count <= Len(bufs[b])
  /\ \E x2 \in {rw_traced(Worker, now, is_read, b, lba, lba_count, "user_cb", b, rc)} :
       SetWorker([x2 EXCEPT !.hist.ncmd = @ + 1,
                            !.hist.last = [op |-> IF is_read THEN "read" ELSE "write",
                                           lbas |-> Range(lba, lba_count), rc |-> rc]])
  /\ ScriptUnchanged

\* the lbas of the first cdw10 + 1 ranges
DsmLbas(ranges, cdw10) ==
  UNION { Range(ranges[k].starting_lba, ranges[k].length) :
            k \in {j \in 1..Len(ranges) : j <= cdw10 + 1} }

\* the script sends a Dataset Management command (opcode 9) with cdw10 + 1
\* ranges through nvme_send_cmd_raw
CmdDsm(ranges, cdw10, rc) ==
  /\ Scripting
  /\ hist.ncmd < CmdBudget
  /\ cdw10 + 1 <= Len(ranges)
  /\ \E m2 \in {nvme_send_cmd_raw(Machine, now, 9, NOBUF, ranges, cdw10,
                                  "user_cb", NOARG, rc)} :
       SetMachine(m2)
  /\ hist' = [HistClear(hist, DsmLbas(ranges, cdw10), FALSE) EXCEPT
                !.ncmd = @ + 1, !.nlog = @ + 1,
                !.last = [op |-> "dsm", lbas |-> DsmLbas(ranges, cdw10), rc |-> rc]]
  /\ UNCHANGED << args, rets, gctx, io_ctx, memzones >>
  /\ ScriptUnchanged

\* the script sends a read (opcode 2) of one block through nvme_send_cmd_raw
CmdRawRead(b, lba, rc) ==
  /\ Scripting
  /\ hist.ncmd < CmdBudget
  /\ FreeBuf(b)
  /\ lba < NSZE
  /\ \E m2 \in {nvme_send_cmd_raw(Machine, now, 2, b, <<>>, lba, "user_cb", b, rc)} :
       SetMachine(m2)
  /\ hist' = [hist EXCEPT !.ncmd = @ + 1, !.nlog = @ + 1,
                          !.last = [op |-> "raw", lbas |-> {lba}, rc |-> rc]]
  /\ UNCHANGED << args, rets, gctx, io_ctx, memzones >>
  /\ ScriptUnchanged

\* the script calls crc32_clear, as it does after a write-uncorrectable
\* (uncorr), after a write-zeroes, or after a sanitize or format (sanitize)
CallCrc32Clear(lba, lba_count, sanitize, uncorr) ==
  /\ Scripting
  /\ hist.ncmd < CmdBudget
  /\ lba + lba_count <= NSZE
  /\ sanitize => lba = 0
  /\ g_driver_csum_table_ptr' =
       crc32_clear(g_driver_csum_table_ptr, lba, lba_count, sanitize, uncorr)
  /\ \E lbas \in {IF sanitize THEN 0..(NSZE - 1) ELSE Range(lba, lba_count)} :
       hist' = [HistClear(hist, lbas, uncorr) EXCEPT
                  !.ncmd = @ + 1,
                  !.last = [op |-> IF uncorr THEN "poison" ELSE "clear",
                            lbas |-> lbas, rc |-> 0]]
  /\ UNCHANGED << g_driver_io_token_ptr, cmd_log_queue_table, bufs, inflight, nsubmit,
                  args, rets, gctx, io_ctx, memzones >>
  /\ ScriptUnchanged

\* qpair_wait_completion reaps command c: the trampoline, then the script's
\* callback
UserComplete(c) ==
  /\ Scripting
  /\ c \in inflight
  /\ c.state = "executed"
  /\ \E log1 \in {cmd_log_add_cpl_cb(cmd_log_queue_table, bufs,
                                     g_driver_csum_table_ptr, now, c.cb_ctx,
                                     Cpl(0, c.status))} :
     \E e \in {log1.table[c.cb_ctx]} :
       /\ e.cb_fn = "user_cb"
       /\ cmd_log_queue_table' = log1
       /\ delivered' = Delivery(c, e, IF e.buf = NOBUF THEN <<>> ELSE bufs[e.buf],
                                g_driver_csum_table_ptr, hist)
  /\ inflight' = inflight \ {c}
  /\ UNCHANGED << now, g_driver_csum_table_ptr, g_driver_io_token_ptr,
                  g_ioworker_status_table, bufs, media, nsubmit, args, rets, gctx,
                  io_ctx, test_start, pc, batch_i, ret, hist, procs, memzones >>

\* a namespace just attached, the script's two buffers allocated
InitCmd ==
  /\ InitCommon
  /\ bufs = [b \in 0..1 |-> [k \in 1..MAX_XFER_BLOCKS |-> ZeroBlock]]
  /\ args = ArgsBase
  /\ g_driver_csum_table_ptr = PreCsum("fresh")
  /\ media = PreMedia("fresh")
  /\ hist = HistInit
  /\ g_driver_io_token_ptr = 0
  /\ pc = "script"

NextCmd ==
  \/ \E b \in 0..1, r \in WriteRanges, rc \in SubmitResults :
       CmdReadWrite(FALSE, b, r[1], r[2], rc)
  \/ \E b \in 0..1, r \in ReadRanges : CmdReadWrite(TRUE, b, r[1], r[2], 0)
  \/ \E cdw10 \in 0..1, rc \in SubmitResults : CmdDsm(ScriptDsm, cdw10, rc)
  \/ \E b \in 0..1 : CmdRawRead(b, 1, 0)
  \/ \E r \in ClearRanges, uncorr \in BOOLEAN :
       CallCrc32Clear(r[1], r[2], FALSE, uncorr)
  \/ CallCrc32Clear(0, 0, TRUE, FALSE)
  \/ \E c \in inflight : UserComplete(c)
  \/ \E c \in inflight, st \in DeviceStatuses, junk \in {"none", "lba", "crc"} :
       DeviceExec(c, st, junk)

SpecCmd == InitCmd /\ [][NextCmd]_vars

\* ------------------------------------------------ a script filling the log
\* The script sends more reads than the ring has slots, through
\* ns_cmd_read_write and through nvme_send_cmd_raw, one at a time with its one
\* buffer, and reaps them, while the clock runs.
InitLog ==
  /\ InitCommon
  /\ bufs = [b \in 0..0 |-> [k \in 1..MAX_XFER_BLOCKS |-> ZeroBlock]]
  /\ args = ArgsBase
  /\ g_driver_csum_table_ptr = PreCsum("fresh")
  /\ media = PreMedia("fresh")
  /\ hist = HistInit
  /\ g_driver_io_token_ptr = 0
  /\ pc = "log"

NextLog ==
  \/ \E rc \in SubmitResults : CmdReadWrite(TRUE, 0, 1, 1, rc)
  \/ CmdRawRead(0, 1, 0)
  \/ \E c \in inflight : UserComplete(c)
  \/ \E c \in inflight : DeviceExec(c, SUCCESS, "none")
  \/ Tick(TV(6, 0))

SpecLog == InitLog /\ [][NextLog]_vars

\* ------------------------------------------- processes sharing the token
\* Each process writes through ns_cmd_read_write; of a write only
\* buffer_fill_data matters here, in two steps: the fetch-add on the shared
\* token, and the loop that stamps the blocks and stores their checksums.
ProcIdle == [state |-> "idle", token |-> 0, lba |-> 0, lba_count |-> 0]

\* buffer_fill_data in process p: __atomic_fetch_add returns the old token
TokenReserve(p, lba, lba_count) ==
  /\ pc = "token"
  /\ procs[p].state = "idle"
  /\ Len(hist.resv) < MaxWrites
  /\ lba + lba_count <= NSZE
  /\ g_driver_io_token_ptr' = atomic_fetch_add(g_driver_io_token_ptr, lba_count)
  /\ procs' = [procs EXCEPT ![p] = [state |-> "fill", token |-> g_driver_io_token_ptr,
                                    lba |-> lba, lba_count |-> lba_count]]
  /\ hist' = [hist EXCEPT !.resv = Append(@, [proc |-> p,
                                              token |-> g_driver_io_token_ptr,
                                              lba_count |-> lba_count])]
  /\ UNCHANGED << now, g_driver_csum_table_ptr, g_ioworker_status_table,
                  cmd_log_queue_table, bufs, media, inflight, nsubmit, delivered,
                  args, rets, gctx, io_ctx, test_start, pc, batch_i, ret,
                  memzones >>

\* buffer_fill_data in process p: its loop over the blocks
TokenFill(p) ==
  /\ pc = "token"
  /\ procs[p].state = "fill"
  /\ \E f \in {fill_blocks(g_driver_csum_table_ptr, bufs[p], procs[p].token,
                           procs[p].lba, procs[p].lba_count)} :
       /\ bufs' = [bufs EXCEPT ![p] = f.buf]
       /\ g_driver_csum_table_ptr' = f.csum
  /\ procs' = [procs EXCEPT ![p].state = "idle"]
  /\ UNCHANGED << now, g_driver_io_token_ptr, g_ioworker_status_table,
                  cmd_log_queue_table, media, inflight, nsubmit, delivered, args,
                  rets, gctx, io_ctx, test_start, pc, batch_i, ret, hist,
                  memzones >>

\* the token anywhere in its range, one that is about to wrap included
InitToken ==
  /\ now = Epoch
  /\ g_ioworker_status_table = [io_count_sent |-> 0, io_count_cplt |-> 0]
  /\ cmd_log_queue_table = cmd_log_table_create
  /\ inflight = {}
  /\ nsubmit = 0
  /\ delivered = NoDelivery
  /\ rets = RetsZero
  /\ gctx = GctxZero
  /\ io_ctx = [i \in 0..1 |-> [is_read |-> FALSE, time_sent |-> TV(0, 0)]]
  /\ test_start = TV(0, 0)
  /\ batch_i = 0
  /\ ret = 0
  /\ procs = [p \in 0..(NPROC - 1) |-> ProcIdle]
  /\ memzones = ZoneNames
  /\ bufs = [p \in 0..(NPROC - 1) |-> [k \in 1..MAX_XFER_BLOCKS |-> ZeroBlock]]
  /\ args = ArgsBase
  /\ g_driver_csum_table_ptr = PreCsum("fresh")
  /\ media = PreMedia("fresh")
  /\ hist = HistInit
  /\ g_driver_io_token_ptr \in {0, TOKEN_MOD - 3}
  /\ pc = "token"

\* process p writes its own region, which begins at lba p and overlaps its
\* neighbour's
NextToken ==
  \/ \E p \in 0..(NPROC - 1), lba_count \in 1..MAX_XFER_BLOCKS :
       TokenReserve(p, p, lba_count)
  \/ \E p \in 0..(NPROC - 1) : TokenFill(p)

SpecToken == InitToken /\ [][NextToken]_vars

\* ------------------------------------------- processes sharing the zones
\* The three zones live in the registry all the processes see; the three
\* pointers are globals of each process.  The primary process is process 0.

spdk_process_is_primary(p) == p = 0

\* spdk_memzone_reserve: NULL when the name is taken or the memory runs out
spdk_memzone_reserve(zones, name, nomem) ==
  IF name \in zones \/ name \in nomem
    THEN [ptr |-> NULL, zones |-> zones]
    ELSE [ptr |-> name, zones |-> zones \cup {name}]

spdk_memzone_lookup(zones, name) == IF name \in zones THEN name ELSE NULL

spdk_memzone_free(zones, name) == zones \ {name}

ProcDetached ==
  [g_driver_io_token_ptr |-> NULL, g_driver_csum_table_ptr |-> NULL,
   g_ioworker_status_table |-> NULL, ns |-> "none", was |-> FALSE]

\* the globals the primary must find NULL
GlobalsNull(g) ==
  /\ g.g_driver_io_token_ptr = NULL
  /\ g.g_driver_csum_table_ptr = NULL
  /\ g.g_ioworker_status_table = NULL

\* memzone_reserve_shared_memory that does not look at the status table
memzone_reserve_shared_memory_nostatus(g, zones, primary, nomem) ==
  LET csum  == spdk_memzone_reserve(zones, "driver_crc32_table", nomem)
      token == spdk_memzone_reserve(csum.zones, "driver_io_token", nomem)
      stat  == spdk_memzone_reserve(token.zones, "ioworker_status_table", nomem)
      g2 == IF primary
              THEN [g EXCEPT !.g_driver_csum_table_ptr = csum.ptr,
                             !.g_driver_io_token_ptr = token.ptr,
                             !.g_ioworker_status_table = stat.ptr]
              ELSE [g EXCEPT !.g_driver_io_token_ptr =
                               spdk_memzone_lookup(zones, "driver_io_token"),
                             !.g_driver_csum_table_ptr =
                               spdk_memzone_lookup(zones, "driver_crc32_table"),
                             !.g_ioworker_status_table =
                               spdk_memzone_lookup(zones, "ioworker_status_table")]
  IN  [g |-> g2,
       zones |-> IF primary THEN stat.zones ELSE zones,
       rc |-> IF \/ g2.g_driver_io_token_ptr = NULL
                 \/ g2.g_driver_csum_table_ptr = NULL
                THEN -1 ELSE 0]

\* memzone_reserve_shared_memory, its asserts passed: the primary reserves the
\* three zones, a secondary looks them up, and any NULL gives -1
memzone_reserve_shared_memory(g, zones, primary, nomem) ==
  LET csum  == spdk_memzone_reserve(zones, "driver_crc32_table", nomem)
      token == spdk_memzone_reserve(csum.zones, "driver_io_token", nomem)
      stat  == spdk_memzone_reserve(token.zones, "ioworker_status_table", nomem)
      g2 == IF primary
              THEN [g EXCEPT !.g_driver_csum_table_ptr = csum.ptr,
                             !.g_driver_io_token_ptr = token.ptr,
                             !.g_ioworker_status_table = stat.ptr]
              ELSE [g EXCEPT !.g_driver_io_token_ptr =
                               spdk_memzone_lookup(zones, "driver_io_token"),
                             !.g_driver_csum_table_ptr =
                               spdk_memzone_lookup(zones, "driver_crc32_table"),
                             !.g_ioworker_status_table =
                               spdk_memzone_lookup(zones, "ioworker_status_table")]
  IN  [g |-> g2,
       zones |-> IF primary THEN stat.zones ELSE zones,
       rc |-> IF \/ g2.g_driver_io_token_ptr = NULL
                 \/ g2.g_driver_csum_table_ptr = NULL
                 \/ g2.g_ioworker_status_table = NULL
                THEN -1 ELSE 0]

\* crc32_fini: the primary frees the token and the checksum table; the status
\* table and the pointer to it are left as they are
crc32_fini(g, zones, primary) ==
  [g |-> [g EXCEPT !.g_driver_io_token_ptr = NULL,
                   !.g_driver_csum_table_ptr = NULL],
   zones |-> IF primary
               THEN spdk_memzone_free(spdk_memzone_free(zones, "driver_io_token"),
                                      "driver_crc32_table")
               ELSE zones]

ZoneFrame ==
  UNCHANGED << now, g_driver_csum_table_ptr, g_driver_io_token_ptr,
               g_ioworker_status_table, cmd_log_queue_table, bufs, media,
               inflight, nsubmit, delivered, args, rets, gctx, io_ctx,
               test_start, pc, batch_i, ret, hist >>

\* ns_init in process p; in the primary an assert on a pointer that is not
\* NULL ends the process
NsInit(p, nomem) ==
  /\ pc = "zones"
  /\ procs[p].ns # "aborted"
  /\ IF spdk_process_is_primary(p) /\ ~GlobalsNull(procs[p])
       THEN /\ procs' = [procs EXCEPT ![p].ns = "aborted"]
            /\ UNCHANGED memzones
       ELSE \E r \in {memzone_reserve_shared_memory(
                        procs[p], memzones, spdk_process_is_primary(p), nomem)} :
              /\ procs' = [procs EXCEPT ![p] =
                             [r.g EXCEPT !.ns = IF r.rc # 0 THEN NULL ELSE "ns",
                                         !.was = @ \/ r.rc = 0]]
              /\ memzones' = r.zones
  /\ ZoneFrame

\* ns_fini in process p, on the namespace ns_init gave it
NsFini(p) ==
  /\ pc = "zones"
  /\ procs[p].ns = "ns"
  /\ \E r \in {crc32_fini(procs[p], memzones, spdk_process_is_primary(p))} :
       /\ procs' = [procs EXCEPT ![p] = [r.g EXCEPT !.ns = "none"]]
       /\ memzones' = r.zones
  /\ ZoneFrame

\* no process attached yet and no zone there
InitZone ==
  /\ now = Epoch
  /\ g_ioworker_status_table = [io_count_sent |-> 0, io_count_cplt |-> 0]
  /\ cmd_log_queue_table = cmd_log_table_create
  /\ inflight = {}
  /\ nsubmit = 0
  /\ delivered = NoDelivery
  /\ rets = RetsZero
  /\ gctx = GctxZero
  /\ io_ctx = [i \in 0..1 |-> [is_read |-> FALSE, time_sent |-> TV(0, 0)]]
  /\ test_start = TV(0, 0)
  /\ batch_i = 0
  /\ ret = 0
  /\ procs = [p \in 0..NPROC |-> ProcDetached]
  /\ memzones = {}
  /\ bufs = [p \in 0..(NPROC - 1) |-> [k \in 1..MAX_XFER_BLOCKS |-> ZeroBlock]]
  /\ args = ArgsBase
  /\ g_driver_csum_table_ptr = PreCsum("fresh")
  /\ media = PreMedia("fresh")
  /\ hist = HistInit
  /\ g_driver_io_token_ptr = 0
  /\ pc = "zones"

NextZone ==
  \/ \E p \in 0..NPROC, nomem \in {{}} \cup {{z} : z \in ZoneNames} :
       NsInit(p, nomem)
  \/ \E p \in 0..NPROC : NsFini(p)

SpecZone == InitZone /\ [][NextZone]_vars

\* ------------------------------------------------ verification of a read
\* buffer_verify_data on a read of lba 1 onward: the slots of its lbas hold
\* any of the words a slot can hold, and its buffer any of a few blocks.
VerifyBlocks == {Block(l, 0, r) : l \in 1..2, r \in 0..1}
VerifySlots == {0, ALL_ONES} \cup {buffer_calc_csum(b) : b \in VerifyBlocks}

InitVerify ==
  /\ InitCommon
  /\ \E f \in [1..MAX_XFER_BLOCKS -> VerifySlots] :
       g_driver_csum_table_ptr =
         [l \in 0..(NSZE - 1) |-> IF l \in 1..MAX_XFER_BLOCKS THEN f[l] ELSE 0]
  /\ \E d \in [1..MAX_XFER_BLOCKS -> VerifyBlocks] : bufs = [b \in 0..0 |-> d]
  /\ args = ArgsBase
  /\ media = PreMedia("fresh")
  /\ hist = HistInit
  /\ g_driver_io_token_ptr = 0
  /\ pc = "verify"

\* the call of buffer_verify_data in cmd_log_add_cpl_cb, for a read of
\* lba_count blocks from lba 1 into buffer 0
VerifyRead(lba_count) ==
  /\ pc = "verify"
  /\ 1 + lba_count <= NSZE
  /\ ret' = buffer_verify_data(g_driver_csum_table_ptr, bufs[0], 1, lba_count)
  /\ hist' = [hist EXCEPT !.last = [op |-> "verify", lbas |-> Range(1, lba_count),
                                    rc |-> 0]]
  /\ pc' = "verified"
  /\ UNCHANGED << now, g_driver_csum_table_ptr, g_driver_io_token_ptr,
                  g_ioworker_status_table, cmd_log_queue_table, bufs, media,
                  inflight, nsubmit, delivered, args, rets, gctx, io_ctx,
                  test_start, batch_i, procs, memzones >>

NextVerify == \E lba_count \in 1..MAX_XFER_BLOCKS : VerifyRead(lba_count)

SpecVerify == InitVerify /\ [][NextVerify]_vars

\* ------------------------------------------- a mixed run without a count
\* Reads and writes at queue depth 2 until the time is up, so that the run
\* sends more commands than the ring has slots; and the run that is refused.
MixedRuns ==
  { Run([ArgsBase EXCEPT !.qdepth = 2, !.io_count = 0, !.seconds = 1,
                         !.read_percentage = 50], "fresh"),
    Run([ArgsBase EXCEPT !.lba_size = MAX_XFER_BLOCKS + 1], "fresh") }

InitMixed == InitRuns(MixedRuns)

SpecMixed == InitMixed /\ [][Next]_vars

\* ------------------------------------------------- a region of one I/O
\* The runs above, and a run of reads on a region as long as one I/O.
RegionRuns ==
  { Run([ArgsBase EXCEPT !.region_end = 1, !.io_count = 2,
                         !.read_percentage = 100], "fresh") }

InitRegion == InitRuns(Scenarios \cup RegionRuns)

SpecRegion == InitRegion /\ [][Next]_vars

\* ---------------------------------------------- a run after another run
\* ioworker_entry is called again, with the same arguments and the same wid,
\* after a run that returned with nothing in flight: the queue, its command
\* log, the namespace and the status row are as that run left them.
CallAgain ==
  /\ pc = "done"
  /\ inflight = {}
  /\ hist.run < MaxRuns
  /\ args' = hist.call
  /\ hist' = [hist EXCEPT !.run = @ + 1, !.call = NoCall, !.lbas = <<>>,
                          !.submit_err = 0, !.cpl_err = FALSE,
                          !.first_err = 0, !.first_other = 0, !.reads_done = 0]
  /\ bufs' = [b \in DOMAIN bufs |-> <<>>]
  /\ pc' = "idle"
  /\ delivered' = NoDelivery
  /\ UNCHANGED << now, g_driver_csum_table_ptr, g_driver_io_token_ptr,
                  g_ioworker_status_table, cmd_log_queue_table, media, inflight,
                  nsubmit, rets, gctx, io_ctx, test_start, batch_i, ret, procs,
                  memzones >>

ReuseRuns ==
  { Run([ArgsBase EXCEPT !.qdepth = 2, !.io_count = 2], "fresh"),
    Run([ArgsBase EXCEPT !.lba_size = MAX_XFER_BLOCKS + 1], "fresh") }

InitReuse == InitRuns(ReuseRuns)

NextReuse == CallAgain \/ Next

SpecReuse == InitReuse /\ [][NextReuse]_vars

\* ------------------------------------------- a run round the whole ring
\* Writes at queue depth 2 under a count budget above the depth of the ring,
\* followed for up to MaxDeep I/Os; and the run that is refused.
DeepRuns ==
  { Run([ArgsBase EXCEPT !.qdepth = 2, !.io_count = MaxDeep], "fresh"),
    Run([ArgsBase EXCEPT !.lba_size = MAX_XFER_BLOCKS + 1], "fresh") }

InitDeep ==
  /\ InitCommon
  /\ bufs = [b \in 0..1 |-> <<>>]
  /\ \E sc \in DeepRuns :
       /\ args = sc.args
       /\ g_driver_csum_table_ptr = PreCsum(sc.pre)
       /\ media = PreMedia(sc.pre)
       /\ hist = [PreHist(sc.pre) EXCEPT !.cap = MaxDeep]
       /\ g_driver_io_token_ptr = 0
  /\ pc = "idle"

SpecDeep == InitDeep /\ [][Next]_vars

\* ------------------------------------------------------- throttled runs
\* Runs with an iops limit that send follow-up I/Os from their completions,
\* at one I/O a second and at two; and the run that is refused.
ThrottleRuns ==
  { Run([ArgsBase EXCEPT !.qdepth = 1, !.io_count = 3, !.iops = 1], "fresh"),
    Run([ArgsBase EXCEPT !.qdepth = 2, !.io_count = 4, !.iops = 2,
                         !.read_percentage = 100], "written"),
    Run([ArgsBase EXCEPT !.lba_size = MAX_XFER_BLOCKS + 1], "fresh") }

InitThrottle == InitRuns(ThrottleRuns)

SpecThrottle == InitThrottle /\ [][Next]_vars

\* What the code's scheduling gives: ioworker_entry runs on, its loops take
\* their next step, and the clock advances.  Nothing is assumed of the device
\* or of the completions the driver delivers.
Fairness ==
  /\ WF_vars(EntryTooLarge \/ EntryStart)
  /\ WF_vars(\E r1 \in RandomValues, r2 \in RandomValues, rc \in SubmitResults :
               BatchSend(r1, r2, rc))
  /\ WF_vars(LoopExit \/ LoopAbort \/ LoopPoll)
  /\ WF_vars(\E d \in TickSteps : Tick(d))

SpecFair == Init /\ [][Next]_vars /\ Fairness

\* ------------------------------------------- properties of the ioworker
\* the run is past its argument checks
Started == pc \in {"batch", "poll", "proc"} \/ (pc = "done" /\ ret # -2)

\* C1: in every state of a run the I/Os outstanding, io_count_sent -
\* io_count_cplt, are at most args.qdepth as clamped to io_count, and so are
\* the commands of the run the driver holds.
C1_QdepthCap ==
  Started =>
    /\ gctx.io_count_sent - gctx.io_count_cplt <= args.qdepth
    /\ Cardinality(inflight) <= args.qdepth

\* C1, its case: a completion handler has sent a follow-up and the queue is
\* full again, at a depth that was clamped to io_count or not
C1_Witness ==
  /\ pc = "proc"
  /\ gctx.io_count_cplt >= 1
  /\ args.qdepth = 2
  /\ gctx.io_count_sent - gctx.io_count_cplt = 2

\* C2: when the driver's submit call failed for an I/O of the run,
\* ioworker_entry returns the error code the call returned.
C2_SubmitErrorReturned ==
  (pc = "done" /\ hist.submit_err # 0) => ret = hist.submit_err

\* C2, its case: a submission failed with -ENOMEM, the run drained and
\* returned 0 with no error recorded
C2_Witness ==
  /\ pc = "done"
  /\ hist.submit_err = -ENOMEM
  /\ gctx.flag_finish
  /\ inflight = {}
  /\ ret = 0
  /\ rets.error = 0

\* C3: whatever the driver does, the call returns; once a check of the
\* watchdog finds the run unfinished more than seconds*1000 + 10000 ms after
\* its start the run ends there with -3 and its duration recorded, and it
\* ends with -3 in no other way.
C3_Returns ==
  /\ <>(pc = "done")
  /\ [][ /\ ( /\ pc \in {"poll", "proc"}
              /\ pc' # pc
              /\ loop_continues(gctx)
              /\ ioworker_get_duration(test_start, now)
                   > args.seconds * 1000 + WATCHDOG_MS )
            => ( /\ pc' = "done"
                 /\ ret' = -3
                 /\ rets' = [rets EXCEPT !.mseconds =
                                            ioworker_get_duration(test_start, now)] )
         /\ (ret' = -3 /\ ret # -3)
            => ( /\ loop_continues(gctx)
                 /\ ioworker_get_duration(test_start, now)
                      > args.seconds * 1000 + WATCHDOG_MS ) ]_vars

\* C3, its case: the device never executed a command and the watchdog ended
\* the run
C3_Witness ==
  /\ pc = "done"
  /\ ret = -3
  /\ gctx.io_count_cplt = 0
  /\ inflight # {}
  /\ \A c \in inflight : c.state = "queued"
  /\ rets.mseconds > args.seconds * 1000 + WATCHDOG_MS

\* C4: a run that started I/O returns 0 only with io_count_sent =
\* io_count_cplt and the finish flag set, and then the driver holds no
\* command of the run.
C4_DoneIsDrained ==
  (pc = "done" /\ ret = 0) =>
    /\ gctx.io_count_sent = gctx.io_count_cplt
    /\ gctx.flag_finish
    /\ inflight = {}

\* C4, its case: a run of several I/Os returned 0
C4_Witness ==
  /\ pc = "done"
  /\ ret = 0
  /\ gctx.io_count_cplt >= 2

\* C5: a run never sends more than io_count I/Os; a run with a count budget
\* that ended with no failed submission, no completion in error and its due
\* time not reached sent and completed exactly io_count I/Os, all of them
\* writes at read_percentage 0 (and error = 0), all of them reads at 100.
C5_CountBudget ==
  /\ Started => gctx.io_count_sent <= args.io_count
  /\ ( /\ pc = "done"
       /\ ret # -2
       /\ hist.submit_err = 0
       /\ ~hist.cpl_err
       /\ ~timercmp_gt(now, gctx.due_time) )
     => /\ gctx.io_count_sent = args.io_count
        /\ gctx.io_count_cplt = args.io_count
        /\ args.read_percentage = 0 =>
             /\ rets.io_count_write = args.io_count
             /\ rets.io_count_read = 0
             /\ rets.error = 0
        /\ args.read_percentage = 100 =>
             /\ rets.io_count_read = args.io_count
             /\ rets.io_count_write = 0

\* C5, its case: a run of three writes ended on its count
C5_Witness ==
  /\ pc = "done"
  /\ hist.submit_err = 0
  /\ ~hist.cpl_err
  /\ ~timercmp_gt(now, gctx.due_time)
  /\ args.io_count = 3
  /\ args.read_percentage = 0
  /\ rets.io_count_write = 3

\* ------------------------------------- properties of the checksum oracle
\* the step handed the completion of a read sent through ns_cmd_read_write to
\* its callback
ReadDelivered ==
  /\ delivered.id # -1
  /\ delivered.entry.cmd.opc = 2
  /\ delivered.entry.buf # NOBUF

\* the lbas of that read
DeliveredLbas == Range(delivered.entry.lba, delivered.entry.lba_count)

\* the callback got the status the device posted
PassedVerification == delivered.cpl.status = delivered.dev_status

\* C6: the slot of an lba never written and never made uncorrectable is 0,
\* whatever was done to other lbas, and a read of such lbas only is handed to
\* its callback with the device's status, whatever data came back.
C6_UnmappedStays ==
  /\ \A l \in 0..(NSZE - 1) : l \notin hist.touched => g_driver_csum_table_ptr[l] = 0
  /\ (ReadDelivered /\ DeliveredLbas \cap delivered.hist.touched = {})
       => PassedVerification

\* C6, its case: another lba was written, and a read of an lba never written
\* came back with data that is not the zeroes of a fresh medium
C6_Witness ==
  /\ ReadDelivered
  /\ DeliveredLbas \cap delivered.hist.touched = {}
  /\ delivered.hist.touched # {}
  /\ delivered.dev_status = SUCCESS
  /\ delivered.data[1] # ZeroBlock

\* C7: a read that brings back, for each of its lbas, the payload of the last
\* write to it (none of them trimmed or made uncorrectable since) is handed to
\* its callback with the device's status.
C7_WriteThenRead ==
  ( /\ ReadDelivered
    /\ \A l \in DeliveredLbas :
         /\ delivered.hist.written[l] # NoBlock
         /\ delivered.data[l - delivered.entry.lba + 1] = delivered.hist.written[l] )
  => PassedVerification

\* C7, its case: two blocks written, stored by the device and read back
C7_Witness ==
  /\ ReadDelivered
  /\ delivered.entry.lba_count = 2
  /\ delivered.dev_status = SUCCESS
  /\ \A l \in DeliveredLbas :
       /\ delivered.hist.written[l] # NoBlock
       /\ delivered.data[l - delivered.entry.lba + 1] = delivered.hist.written[l]

\* C8: the step that submits a Dataset Management command leaves the slots of
\* its ranges 0 and every other slot as it was, with the command queued at
\* the driver and not yet executed; and a read of lbas that were all trimmed
\* and not written or made uncorrectable since is handed to its callback with
\* the device's status, whatever data came back.
C8_TrimAtSubmit ==
  /\ [](  (ReadDelivered /\ DeliveredLbas \subseteq delivered.hist.trimmed)
            => PassedVerification )
  /\ [][ (hist'.ncmd = hist.ncmd + 1 /\ hist'.last.op = "dsm")
          => /\ g_driver_csum_table_ptr' =
                  [l \in 0..(NSZE - 1) |->
                     IF l \in hist'.last.lbas THEN 0 ELSE g_driver_csum_table_ptr[l]]
             /\ media' = media
             /\ hist'.last.rc = 0 =>
                  \E c \in inflight' \ inflight :
                    c.cmd.opc = 9 /\ c.state = "queued" ]_vars

\* C8, its case: an lba was written, trimmed, and read back with data that
\* does not match what was written
C8_Witness ==
  /\ ReadDelivered
  /\ DeliveredLbas \subseteq delivered.hist.trimmed
  /\ DeliveredLbas \subseteq delivered.hist.touched
  /\ delivered.dev_status = SUCCESS
  /\ delivered.data[1].lba # delivered.entry.lba

\* C9: a read through ns_cmd_read_write that covers an lba made uncorrectable
\* and not written or trimmed since is handed to its callback with SCT 2 and
\* SC 0x81.
C9_UncorrectableRead ==
  (ReadDelivered /\ DeliveredLbas \cap delivered.hist.poisoned # {})
    => delivered.cpl.status = UNRECOVERED_READ

\* C9, its case: the device reported success for a read whose second block is
\* uncorrectable and whose first block is not
C9_Witness ==
  /\ ReadDelivered
  /\ delivered.entry.lba_count = 2
  /\ delivered.entry.lba \notin delivered.hist.poisoned
  /\ (delivered.entry.lba + 1) \in delivered.hist.poisoned
  /\ delivered.dev_status = SUCCESS

\* ---------------------------------------------- properties of the token
\* the tokens a reservation holds
ResvTokens(r) == { (r.token + a) % TOKEN_MOD : a \in 0..(r.lba_count - 1) }

\* the blocks reserved from reservation i up to, not including, reservation j
RECURSIVE ResvBetween(_, _, _)
ResvBetween(resv, i, j) ==
  IF i >= j THEN 0 ELSE resv[i].lba_count + ResvBetween(resv, i + 1, j)

\* C10: whatever the interleaving of the processes, the token ranges of two
\* writes are disjoint, the later reservation starts where the earlier ones
\* end, so that every token of the earlier write is smaller than every token
\* of the later one unless the counter wrapped in between; and the blocks a
\* process stamped carry the tokens of its reservation.
C10_TokenRanges ==
  /\ \A i \in 1..Len(hist.resv) : \A j \in 1..Len(hist.resv) :
       i < j =>
         /\ ResvTokens(hist.resv[i]) \cap ResvTokens(hist.resv[j]) = {}
         /\ hist.resv[j].token
              = (hist.resv[i].token + ResvBetween(hist.resv, i, j)) % TOKEN_MOD
         /\ hist.resv[i].token + ResvBetween(hist.resv, i, j) < TOKEN_MOD
              => hist.resv[i].token + hist.resv[i].lba_count - 1 < hist.resv[j].token
  /\ \A i \in 1..Len(hist.resv) :
       LET r == hist.resv[i]
       IN  ( /\ procs[r.proc].state = "idle"
             /\ \A j \in 1..Len(hist.resv) : j > i => hist.resv[j].proc # r.proc )
           => \A k \in 1..r.lba_count :
                bufs[r.proc][k].tok = (r.token + k - 1) % TOKEN_MOD

\* C10, its case: two processes hold reservations of two blocks each, neither
\* has stamped its blocks yet, and the counter has wrapped
C10_Witness ==
  /\ \A p \in DOMAIN procs : procs[p].state = "fill" /\ procs[p].lba_count = 2
  /\ Len(hist.resv) >= 3
  /\ hist.resv[Len(hist.resv)].token < hist.resv[1].token

\* ------------------------------------------------ the checksum's reserved words
\* the word a write stores for a block whose CRC32C is crc
StoredWord(crc) == IF crc = 0 THEN 1 ELSE IF crc = ALL_ONES THEN ALL_ONES - 1 ELSE crc

\* C11: the slot of an lba whose last change was a write holds the block's
\* CRC32C with 0 moved to 1 and 0xffffffff to 0xfffffffe, so never 0 and never
\* 0xffffffff; the checksum recomputed over the data of a read is moved the
\* same way, and a read that brings such a block back is not taken for a
\* failure.
C11_CrcNormalized ==
  /\ \A l \in 0..(NSZE - 1) :
       hist.written[l] # NoBlock =>
         /\ g_driver_csum_table_ptr[l] = StoredWord(spdk_crc32c_update(hist.written[l]))
         /\ g_driver_csum_table_ptr[l] \notin {0, ALL_ONES}
  /\ ReadDelivered =>
       \A l \in DeliveredLbas :
         LET blk == delivered.data[l - delivered.entry.lba + 1]
         IN  /\ buffer_calc_csum(blk) = StoredWord(spdk_crc32c_update(blk))
             /\ ( /\ delivered.entry.lba_count = 1
                  /\ delivered.hist.written[l] = blk )
                => PassedVerification

\* C11, its case: a block whose CRC32C is one of the reserved words was
\* written, stored by the device, read back and passed verification
C11_Witness ==
  /\ ReadDelivered
  /\ delivered.dev_status = SUCCESS
  /\ PassedVerification
  /\ \E l \in DeliveredLbas :
       /\ delivered.hist.written[l] # NoBlock
       /\ spdk_crc32c_update(delivered.hist.written[l]) \in {0, ALL_ONES}
       /\ delivered.data[l - delivered.entry.lba + 1] = delivered.hist.written[l]

\* ------------------------------------------------- properties of the log
\* the slot of the k-th call of cmd_log_add_cmd, k = 0, 1, ...
SlotOf(k) == k % CMD_LOG_DEPTH

\* a <= b for struct timeval
TimeLeq(a, b) == ~timercmp_gt(a, b)

\* C12: the tail index is within the ring and is the number of the calls of
\* cmd_log_add_cmd modulo the ring's depth; the k-th call writes slot k mod
\* depth and no other, stamps it with the time of the call, and its slot is
\* the context the command is handed to the driver with; so the entries from
\* the oldest to the newest are in the order of submission, with timestamps
\* that do not decrease.
C12_RingOrder ==
  /\ [](/\ cmd_log_queue_table.tail_index \in 0..(CMD_LOG_DEPTH - 1)
        /\ cmd_log_queue_table.tail_index = SlotOf(hist.nlog)
        /\ \A i \in 0..(hist.nlog - 1) : \A j \in 0..(hist.nlog - 1) :
             (i < j /\ j - i < CMD_LOG_DEPTH /\ i >= hist.nlog - CMD_LOG_DEPTH)
               => TimeLeq(cmd_log_queue_table.table[SlotOf(i)].time_cmd,
                          cmd_log_queue_table.table[SlotOf(j)].time_cmd))
  /\ [][ hist'.nlog # hist.nlog
          => /\ hist'.nlog = hist.nlog + 1
             /\ \A k \in 0..(CMD_LOG_DEPTH - 1) :
                  k # SlotOf(hist.nlog)
                    => cmd_log_queue_table'.table[k] = cmd_log_queue_table.table[k]
             /\ cmd_log_queue_table'.table[SlotOf(hist.nlog)].time_cmd = now
             /\ \A c \in inflight' \ inflight :
                  /\ c.cb_ctx = SlotOf(hist.nlog)
                  /\ cmd_log_queue_table'.table[c.cb_ctx].cmd = c.cmd ]_vars

\* C12, its case: the ring has gone round, and the clock moved between the
\* oldest entry and the newest
C12_Witness ==
  /\ pc = "log"
  /\ hist.nlog > CMD_LOG_DEPTH
  /\ cmd_log_queue_table.tail_index = 1
  /\ timercmp_gt(cmd_log_queue_table.table[0].time_cmd,
                 cmd_log_queue_table.table[1].time_cmd)

\* C13: in a run of the ioworker no entry of a command still in flight is
\* written again: the entry of every command the driver holds carries that
\* command, its buffer and its context, and so does the entry the trampoline
\* reads when the command completes.
C13_EntryKept ==
  /\ Started =>
       \A c \in inflight :
         /\ cmd_log_queue_table.table[c.cb_ctx].cmd = c.cmd
         /\ cmd_log_queue_table.table[c.cb_ctx].buf = c.buf
         /\ cmd_log_queue_table.table[c.cb_ctx].cb_arg = c.buf
  /\ (Started /\ delivered.id # -1) =>
       /\ delivered.entry.cmd = delivered.cmd
       /\ delivered.entry.buf = delivered.cmd_buf
       /\ delivered.entry.cb_arg = delivered.cmd_buf

\* C13, its case: with qdepth 2 the first command of context 0 stayed in
\* flight while context 1 went round the ring; its completion was handed to
\* the callback with the context of the other command
C13_Witness ==
  /\ Started
  /\ args.qdepth = 2
  /\ args.qdepth <= CMD_LOG_DEPTH \div 2
  /\ delivered.id = 0
  /\ delivered.cmd_buf = 0
  /\ delivered.entry.cb_arg = 1

\* --------------------------------------------- the lbas of a sequential run
\* a sequential run over the whole namespace from lba 0, one block an I/O,
\* aligned to one block: the caller's region [0, NSZE) is by now the revised
\* one, which ends at NSZE - lba_size - 1
WholeSequential ==
  /\ Started
  /\ args.lba_random = 0
  /\ args.lba_align = 1
  /\ args.lba_size = 1
  /\ args.lba_start = 0
  /\ args.region_start = 0
  /\ args.region_end = NSZE - 2

\* C14, as the claim has it: the k-th I/O of such a run, k = 1, 2, ..., starts
\* at lba (k - 1) mod NSZE: 0, 1, ..., NSZE - 1, 0, 1, ...
C14_FromLbaStart ==
  WholeSequential =>
    \A k \in 1..Len(hist.lbas) : hist.lbas[k] = (k - 1) % NSZE

\* C14, as the code has it: the k-th I/O of such a run starts at lba
\* k mod (NSZE - 1): the first I/O is at lba_start + lba_align, each next one
\* lba_align further, and the lba after region_end = NSZE - lba_size - 1 is
\* region_start; the last block of the caller's region is never accessed.
C14_FromLbaStartPlusAlign ==
  WholeSequential =>
    \A k \in 1..Len(hist.lbas) :
      /\ hist.lbas[k] = k % (NSZE - 1)
      /\ hist.lbas[k] # NSZE - 1

\* C14, its case: the run went through its region and began again
C14_Witness ==
  /\ WholeSequential
  /\ Len(hist.lbas) >= NSZE
  /\ hist.lbas[1] = 1
  /\ hist.lbas[NSZE - 1] = 0
  /\ hist.lbas[NSZE] = 1

\* ------------------------------------------- completions in error in a run
\* the run's budget is used up: its count is sent or its time is over
BudgetReached ==
  gctx.io_count_sent = args.io_count \/ timercmp_gt(now, gctx.due_time)

\* C15: in a mixed workload the step that hands a completion with code 0x0281
\* to the callback leaves rets.error as it was and sets the finish flag only
\* if the budget is used up or the follow-up could not be submitted; and as
\* long as no completion carried another error code and no submission
\* failed, rets.error is 0, the flag is set only with the budget used up, and
\* the run that returns 0 returns with its budget used up.
C15_VerifyNoiseIgnored ==
  /\ []( ( /\ Started
           /\ args.read_percentage < 100
           /\ hist.first_other = 0
           /\ hist.submit_err = 0 )
         => /\ rets.error = 0
            /\ gctx.flag_finish => BudgetReached
            /\ (pc = "done" /\ ret = 0) => BudgetReached )
  /\ [][ ( /\ delivered'.id # -1
           /\ pc = "proc"
           /\ args.read_percentage < 100
           /\ delivered'.cpl.status = UNRECOVERED_READ )
         => /\ rets'.error = rets.error
            /\ (gctx'.flag_finish /\ ~gctx.flag_finish)
                 => \/ BudgetReached'
                    \/ hist'.submit_err # hist.submit_err ]_vars

\* C15, its case: a mixed run had a read fail verification, went on, and
\* returned 0 with its count sent and no error recorded
C15_Witness ==
  /\ pc = "done"
  /\ ret = 0
  /\ args.read_percentage < 100
  /\ hist.first_err = 641
  /\ hist.first_other = 0
  /\ hist.submit_err = 0
  /\ rets.error = 0
  /\ gctx.io_count_cplt = args.io_count
  /\ gctx.io_count_cplt >= 2

\* the code of the first completion in error that the workload does not
\* suppress, 0 when there was none
FirstUnsuppressed ==
  IF args.read_percentage = 100 THEN hist.first_err ELSE hist.first_other

\* C16: once a completion reported an error that is not suppressed the finish
\* flag is set and rets.error is the 11-bit code of the first such completion,
\* whatever errors follow; and when all the I/Os sent have completed the run
\* ends with 0, not with -3.
C16_FirstErrorKept ==
  (Started /\ FirstUnsuppressed # 0) =>
    /\ gctx.flag_finish
    /\ rets.error = FirstUnsuppressed
    /\ (pc = "done" /\ gctx.io_count_sent = gctx.io_count_cplt) => ret = 0

\* C16, its case: a run of reads had a read fail verification and then a read
\* fail in the device; it drained and returned 0 with the first code
C16_Witness ==
  /\ pc = "done"
  /\ ret = 0
  /\ args.read_percentage = 100
  /\ hist.first_err = 641
  /\ hist.first_other # 0
  /\ rets.error = 641
  /\ inflight = {}

\* ------------------------------------------------ the checks of the call
\* C17: a call of ioworker_entry with an argument that is not valid returns
\* at once with a negative status code, no I/O submitted.
C17_InvalidArgsRejected ==
  (pc # "idle" /\ ~ArgsValid(hist.call)) =>
    /\ pc = "done"
    /\ ret < 0
    /\ nsubmit = 0
    /\ hist.nlog = 0

\* C17, its case: called with read_percentage 101 the process was aborted by
\* the assert, and the call never returned a status code
C17_Witness ==
  /\ pc = "aborted"
  /\ hist.call.read_percentage = 101
  /\ ret = 0
  /\ rets.error = 0
  /\ nsubmit = 0

\* C18: a call with arguments that pass the asserts and a transfer larger
\* than the controller takes returns -2 with rets.error = 2 and the other
\* returns 0, in one step that changes nothing else: the driver holds no
\* command, the log, the checksum table, the token, the caller's args and the
\* status row are as they were; and -2 is returned in no other case.
C18_TooLarge ==
  /\ []( (pc = "done" /\ ret = -2)
           => /\ hist.call.lba_size > MAX_XFER_BLOCKS
              /\ rets = [RetsZero EXCEPT !.error = 2]
              /\ args = hist.call
              /\ nsubmit = 0
              /\ inflight = {}
              /\ hist.nlog = 0
              /\ cmd_log_queue_table = cmd_log_table_create )
  /\ [][ ( /\ pc = "idle"
           /\ pc' # "idle"
           /\ ArgsValid(args)
           /\ args.lba_size > MAX_XFER_BLOCKS )
         => /\ pc' = "done"
            /\ ret' = -2
            /\ rets' = [RetsZero EXCEPT !.error = 2]
            /\ UNCHANGED << args, g_driver_csum_table_ptr, g_driver_io_token_ptr,
                            g_ioworker_status_table, cmd_log_queue_table, inflight,
                            nsubmit, media, bufs, now, memzones >> ]_vars

\* C18, its case: the call returned -2, and the seconds = 0 of the caller's
\* args were not made 24 hours
C18_Witness ==
  /\ pc = "done"
  /\ ret = -2
  /\ rets.error = 2
  /\ hist.call.lba_size = MAX_XFER_BLOCKS + 1
  /\ args.seconds = 0
  /\ nsubmit = 0

\* ------------------------------------------------------------------- C19
ZonesAvailable == ZoneNames \subseteq memzones

\* C19: only the primary process reserves and frees the memory zones: a step
\* of a secondary never changes the set of zones.  A secondary's ns_init gives
\* a namespace only when all three zones exist and gives NULL whenever one of
\* them is missing; the primary's gives a namespace only when it has created
\* all three.  A process that holds a namespace has its three pointers set.
C19_ZoneRoles ==
  /\ [](\A p \in 0..NPROC :
          procs[p].ns = "ns" =>
            /\ procs[p].g_driver_io_token_ptr # NULL
            /\ procs[p].g_driver_csum_table_ptr # NULL
            /\ procs[p].g_ioworker_status_table # NULL)
  /\ [][pc = "zones" =>
        \A p \in 0..NPROC :
          procs'[p] # procs[p] =>
            /\ ~spdk_process_is_primary(p) => memzones' = memzones
            /\ (~spdk_process_is_primary(p) /\ procs'[p].ns = "ns")
                 => ZonesAvailable
            /\ (~spdk_process_is_primary(p) /\ procs[p].ns = "none"
                  /\ procs'[p].ns # "none" /\ ~ZonesAvailable)
                 => procs'[p].ns = NULL
            /\ (~spdk_process_is_primary(p) /\ procs'[p].ns = NULL)
                 => ~ZonesAvailable
            /\ (spdk_process_is_primary(p) /\ procs'[p].ns = "ns")
                 => /\ memzones = {}
                    /\ memzones' = ZoneNames
            /\ (spdk_process_is_primary(p) /\ procs[p].ns = "none"
                  /\ procs'[p].ns = NULL)
                 => memzones' # ZoneNames]_vars

\* a secondary that was attached is refused after the primary, which was
\* attached too, has torn the zones down
C19_Witness ==
  /\ pc = "zones"
  /\ procs[0].was /\ procs[0].ns = "none"
  /\ procs[1].was /\ procs[1].ns = NULL
  /\ "driver_io_token" \notin memzones
  /\ "driver_crc32_table" \notin memzones

\* ------------------------------------------------------------------- C20
\* the run is under way: between the first send and the return
Running == pc \in {"batch", "poll", "proc"}

\* C20: once flag_finish is set during a run it stays set until the run
\* returns, and the worker hands no further I/O to the driver
C20_FinishStopsSending ==
  [][(Running /\ gctx.flag_finish) =>
       /\ gctx'.flag_finish
       /\ nsubmit' = nsubmit]_vars

\* the first send of the initial batch failed and set flag_finish, and the
\* second send of the batch went to the driver all the same
C20_Witness ==
  /\ Running
  /\ args.qdepth = 2
  /\ gctx.flag_finish
  /\ hist.submit_err = -ENOMEM
  /\ gctx.io_count_sent = 1
  /\ gctx.io_count_cplt = 0
  /\ inflight # {}
  /\ \A c \in inflight : cmd_log_queue_table.table[c.cb_ctx].cb_arg = 1

\* ------------------------------------------------------------------- C21
\* what block i of the read of lba 1 onward deserves by itself: 0 when its
\* slot is unmapped, whatever the data; -1 when the slot is uncorrectable,
\* whatever the data; -2 when the stamp is not its lba; -3 when only the
\* checksum differs
BlockVerdict(i) ==
  LET slot == g_driver_csum_table_ptr[1 + i]
      blk  == bufs[0][i + 1]
  IN  IF slot = 0 THEN 0
      ELSE IF slot = ALL_ONES THEN -1
      ELSE IF blk.lba # 1 + i THEN -2
      ELSE IF buffer_calc_csum(blk) # slot THEN -3
      ELSE 0

FailingBlocks == {i \in 0..(Cardinality(hist.last.lbas) - 1) : BlockVerdict(i) # 0}

\* C21: verification of a multi-block read returns what the failing block of
\* the lowest lba deserves (uncorrectable before lba mismatch before crc
\* mismatch, an unmapped block skipped), and 0 only when no block fails
C21_FirstFailureInOrder ==
  pc = "verified" =>
    ret = IF FailingBlocks = {} THEN 0
          ELSE BlockVerdict(CHOOSE i \in FailingBlocks :
                              \A j \in FailingBlocks : i <= j)

\* a read of two blocks: the first unmapped with data of another lba, the
\* second with the wrong stamp and the wrong checksum, and an lba mismatch
\* is what comes back
C21_Witness ==
  /\ pc = "verified"
  /\ Cardinality(hist.last.lbas) = 2
  /\ g_driver_csum_table_ptr[1] = 0
  /\ bufs[0][1].lba # 1
  /\ g_driver_csum_table_ptr[2] \notin {0, ALL_ONES}
  /\ bufs[0][2].lba # 2
  /\ buffer_calc_csum(bufs[0][2]) # g_driver_csum_table_ptr[2]
  /\ ret = -2

\* ------------------------------------------------------------------- C22
\* the logged command is a read with a buffer attached
EntryVerified(e) == e.cmd.opc = 2 /\ e.buf # NOBUF

\* C22: the callback of a completion is handed the entry's record, after the
\* trampoline stamped the completion time, stored the latency in dword 2 and
\* set the synthetic status when, and only when, the logged command is a read
\* with a buffer and its verification failed; a command the driver completed
\* that is not a read, or that was sent without a logged buffer, is handed
\* over with the status the device posted.
C22_TrampolineOrder ==
  /\ [](delivered.id # -1 =>
          LET e == delivered.entry
              vfail == /\ EntryVerified(e)
                       /\ buffer_verify_data(delivered.csum, delivered.data,
                                             e.lba, e.lba_count) # 0
          IN  /\ e.cpl.cdw2 = timeval_to_us(timersub(e.time_cpl, e.time_cmd))
              /\ delivered.cpl = e.cpl
              /\ e.cpl.status = IF vfail THEN UNRECOVERED_READ
                                ELSE delivered.dev_status
              /\ (delivered.cmd.opc # 2 \/ delivered.entry.buf = NOBUF)
                   => delivered.cpl.status = delivered.dev_status)
  /\ [][delivered'.id # -1 =>
          /\ delivered'.entry.time_cpl = now
          /\ \E c \in inflight : c.id = delivered'.id /\ c.state = "executed"
          /\ \A c \in inflight' : c.id # delivered'.id]_vars

\* a write the device completed with success is handed to the callback with
\* the synthetic status: the entry its completion came with is that of a
\* later read
C22_Witness ==
  /\ delivered.id # -1
  /\ delivered.cmd.opc = 1
  /\ delivered.dev_status = SUCCESS
  /\ EntryVerified(delivered.entry)
  /\ delivered.cpl.status = UNRECOVERED_READ

\* ------------------------------------------------------------------- C23
\* C23: when a write through ns_cmd_read_write has been issued, accepted by
\* the driver or refused, the slot of each of its lbas holds the checksum of
\* the block the write carries there, the other slots are as before and the
\* token has advanced by the number of blocks; a read changes no slot and not
\* the token; and no completion, failed or not, changes a slot.
C23_OracleBeforeSubmit ==
  [][ /\ (hist'.ncmd = hist.ncmd + 1 /\ hist'.last.op = "write")
         => /\ \A l \in hist'.last.lbas :
                 /\ hist'.written[l].lba = l
                 /\ g_driver_csum_table_ptr'[l] = buffer_calc_csum(hist'.written[l])
            /\ \A l \in (0..(NSZE - 1)) \ hist'.last.lbas :
                 g_driver_csum_table_ptr'[l] = g_driver_csum_table_ptr[l]
            /\ g_driver_io_token_ptr' =
                 atomic_fetch_add(g_driver_io_token_ptr,
                                  Cardinality(hist'.last.lbas))
            /\ \A c \in inflight' \ inflight :
                 \A l \in hist'.last.lbas :
                   g_driver_csum_table_ptr'[l] =
                     buffer_calc_csum(bufs'[c.buf][l - cmd_lba(c.cmd) + 1])
      /\ (hist'.ncmd = hist.ncmd + 1 /\ hist'.last.op = "read")
         => /\ g_driver_csum_table_ptr' = g_driver_csum_table_ptr
            /\ g_driver_io_token_ptr' = g_driver_io_token_ptr
      /\ hist'.ncmd = hist.ncmd
         => /\ g_driver_csum_table_ptr' = g_driver_csum_table_ptr
            /\ g_driver_io_token_ptr' = g_driver_io_token_ptr ]_vars

\* a write the device failed is handed to its callback, and the slots of its
\* lbas still hold the checksums of the blocks it carried
C23_Witness ==
  /\ delivered.id # -1
  /\ delivered.cmd.opc = 1
  /\ delivered.dev_status # SUCCESS
  /\ \A l \in Range(cmd_lba(delivered.cmd), cmd_nlb(delivered.cmd)) :
       /\ hist.written[l] # NoBlock
       /\ g_driver_csum_table_ptr[l] = buffer_calc_csum(hist.written[l])

\* ------------------------------------------------------------------- C24
\* C24: every I/O a run sent starts at a multiple of lba_align and lies in
\* the region the caller gave, clamped to the namespace
C24_InsideRegion ==
  Started =>
    \A k \in 1..Len(hist.lbas) :
      /\ hist.lbas[k] % hist.call.lba_align = 0
      /\ hist.call.region_start <= hist.lbas[k]
      /\ hist.lbas[k] + hist.call.lba_size <= Min(hist.call.region_end, NSZE)

\* the caller's region holds exactly one I/O, the region_end the run works
\* with has wrapped below zero, and an I/O was sent beyond the region
C24_Witness ==
  /\ Started
  /\ hist.call.region_start < hist.call.region_end
  /\ hist.call.region_end - hist.call.region_start = hist.call.lba_size
  /\ args.region_end > NSZE
  /\ \E k \in 1..Len(hist.lbas) : hist.lbas[k] >= hist.call.region_end

\* ------------------------------------------------------------------- C25
\* C25: while a run is under way its status row follows it: once the run has
\* sent an I/O the row's io_count_sent is the run's counter, once it has
\* completed one the row's io_count_cplt is the run's counter, and the row
\* never shows more completions than submissions
C25_RowFollowsRun ==
  Running =>
    /\ gctx.io_count_sent > 0
         => g_ioworker_status_table.io_count_sent = gctx.io_count_sent
    /\ gctx.io_count_cplt > 0
         => g_ioworker_status_table.io_count_cplt = gctx.io_count_cplt
    /\ g_ioworker_status_table.io_count_cplt
         <= g_ioworker_status_table.io_count_sent

\* the second run on the row has sent its first I/O and completed none, and
\* the row shows the completions of the first run
C25_Witness ==
  /\ Running
  /\ hist.run = 2
  /\ gctx.io_count_sent = 1
  /\ gctx.io_count_cplt = 0
  /\ g_ioworker_status_table.io_count_sent = 1
  /\ g_ioworker_status_table.io_count_cplt = 2

\* ------------------------------------------------------------------- C26
\* the run is throttled
Throttled == gctx.io_delay_time.tv_usec # 0

\* the start of the run plus i times io_delay_time
DueAt(i) == usleep(test_start, i * gctx.io_delay_time.tv_usec)

\* C26: in a throttled run io_due_time advances by io_delay_time in every
\* completion handler, and the follow-up I/O of the i-th handler is not sent
\* before the start plus i times io_delay_time; so at no time has the run
\* sent more than qdepth plus the elapsed time over io_delay_time
C26_ThrottleBound ==
  /\ []((Running /\ Throttled /\ gctx.io_count_sent >= args.qdepth)
          => ~timercmp_gt(DueAt(gctx.io_count_sent - args.qdepth), now))
  /\ [][(pc = "proc" /\ Throttled /\ gctx'.io_count_cplt = gctx.io_count_cplt + 1)
          => /\ gctx'.io_due_time = timeradd(gctx.io_due_time, gctx.io_delay_time)
             /\ gctx'.io_due_time = DueAt(gctx'.io_count_cplt + 1)
             /\ hist'.nlog > hist.nlog
                  => ~timercmp_gt(DueAt(gctx'.io_count_cplt), now')]_vars

\* the second handler of a throttled run came later than its due time, did
\* not sleep, and sent its follow-up
C26_Witness ==
  /\ Running
  /\ Throttled
  /\ delivered.id # -1
  /\ gctx.io_count_cplt = 2
  /\ gctx.io_count_sent = args.qdepth + 2
  /\ timercmp_gt(now, DueAt(2))

\* ------------------------------------------------------------------- C27
RECURSIVE SeqSum(_)
SeqSum(q) == IF q = <<>> THEN 0 ELSE q[1] + SeqSum(Tail(q))

\* C27: with io_counter_per_second given, the buckets written so far add up
\* to io_count_till_last_sec, which is at most the completions counted, and
\* there are last_sec of them, at most one for each whole second since the
\* start; a step writes at most one bucket, in a completion handler whose
\* timestamp is past time_next_sec, and moves time_next_sec on by a second.
C27_PerSecondBuckets ==
  /\ []((Started /\ args.io_counter_per_second # NULL) =>
          /\ SeqSum(args.per_second_array) = gctx.io_count_till_last_sec
          /\ gctx.io_count_till_last_sec <= rets.io_count_read + rets.io_count_write
          /\ gctx.last_sec = Len(args.per_second_array)
          /\ gctx.last_sec <= timersub(now, test_start).tv_sec)
  /\ [][Started' =>
          /\ Len(args'.per_second_array) # Len(args.per_second_array) =>
               /\ pc = "proc"
               /\ args.io_counter_per_second # NULL
               /\ Len(args'.per_second_array) = Len(args.per_second_array) + 1
               /\ timercmp_gt(now, gctx.time_next_sec)
               /\ gctx'.io_count_cplt = gctx.io_count_cplt + 1
               /\ gctx'.time_next_sec = timeradd_second(gctx.time_next_sec, 1)
          /\ Len(args'.per_second_array) = Len(args.per_second_array) =>
               gctx'.io_count_till_last_sec = gctx.io_count_till_last_sec]_vars

\* the first handler ran within the first second and wrote no bucket, the
\* second ran later and wrote the one bucket, which counts both completions
C27_Witness ==
  /\ Started
  /\ args.io_counter_per_second # NULL
  /\ Len(args.per_second_array) = 1
  /\ args.per_second_array[1] = 2
  /\ rets.io_count_read + rets.io_count_write = 2
  /\ timersub(now, test_start).tv_sec > 1

\* ------------------------------------------------------------------- C28
\* C28: ns_fini in the primary process leaves none of the three zones and
\* none of its three pointers set, and an ns_init of the primary after it is
\* not ended by an assert
C28_TeardownUndoesAttach ==
  [][pc = "zones" =>
       /\ (procs[0].ns = "ns" /\ procs'[0].ns = "none")
            => /\ memzones' = {}
               /\ GlobalsNull(procs'[0])
       /\ (procs[0].was /\ procs[0].ns = "none")
            => procs'[0].ns # "aborted"]_vars

\* the primary attached, tore down and attached again: the status table
\* zone and the pointer to it were still there, and the assert ended it
C28_Witness ==
  /\ pc = "zones"
  /\ procs[0].was
  /\ procs[0].ns = "aborted"
  /\ procs[0].g_driver_io_token_ptr = NULL
  /\ procs[0].g_driver_csum_table_ptr = NULL
  /\ procs[0].g_ioworker_status_table # NULL
  /\ memzones = {"ioworker_status_table"}

\* ------------------------------------------------------------------- C29
\* C29: when ioworker_entry has freed its buffers and returned, whatever it
\* returns, the driver holds no I/O of the run
C29_NothingOutstandingAtReturn ==
  pc = "done" => inflight = {}

\* the watchdog ended the run: it returned -3 and freed its buffers, and an
\* I/O of the run is still with the driver, its buffer among the freed
C29_Witness ==
  /\ pc = "done"
  /\ ret = -3
  /\ \E c \in inflight :
       /\ c.buf # NOBUF
       /\ bufs[c.buf] = <<>>
       /\ cmd_log_queue_table.table[c.cb_ctx].cb_fn = "ioworker_one_cb"

\* ------------------------------------------------------------------- C30
\* C30: during a run and after it the reads and the writes counted add up to
\* the completions counted, and the reads counted are the read commands the
\* driver completed
C30_CountsByDirection ==
  Started =>
    /\ rets.io_count_read + rets.io_count_write = gctx.io_count_cplt
    /\ rets.io_count_read = hist.reads_done

\* a write the driver completed came to the callback with the context of the
\* other I/O, whose command is a read, and was counted as a read
C30_Witness ==
  /\ Started
  /\ delivered.id # -1
  /\ delivered.cmd.opc = 1
  /\ delivered.entry.cb_arg # delivered.cmd_buf
  /\ delivered.hist.reads_done = hist.reads_done
  /\ delivered.hist.reads_done = rets.io_count_read - 1
  /\ rets.io_count_read + rets.io_count_write = gctx.io_count_cplt

\* ------------------------------------------------------------------- C31
\* the contexts of the run that have an I/O with the driver
BusyContexts == { c.buf : c \in inflight }

\* C31: during a run no two I/Os with the driver are of the same context, the
\* contexts that have an I/O with the driver are as many as io_count_sent -
\* io_count_cplt, and a step of the run leaves the buffer of every I/O that
\* is with the driver, untouched by the device, before and after it as it was
C31_OneIoPerContext ==
  /\ [](Running =>
          /\ \A c1, c2 \in inflight : c1.buf = c2.buf => c1.id = c2.id
          /\ Cardinality(BusyContexts) = gctx.io_count_sent - gctx.io_count_cplt)
  /\ [][(Running /\ Running') =>
          \A c \in inflight \cap inflight' : bufs'[c.buf] = bufs[c.buf]]_vars

\* the completion of the I/O of one context came to the callback with the
\* other context, whose I/O is still with the driver: the handler filled that
\* context's buffer for a write and sent it, so the context has two I/Os with
\* the driver, the earlier one with a buffer that is no longer what it was
C31_Witness ==
  /\ Running
  /\ delivered.id # -1
  /\ delivered.entry.cb_arg # delivered.cmd_buf
  /\ \E c1, c2 \in inflight :
       /\ c1.id < c2.id
       /\ c1.buf = delivered.entry.cb_arg
       /\ c2.buf = c1.buf
       /\ c2.cmd.opc = 1
       /\ c2.id = nsubmit - 1
       /\ bufs[c1.buf] # delivered.data
  /\ Cardinality(BusyContexts) < gctx.io_count_sent - gctx.io_count_cplt
====
